---- MODULE Spec2Model ----
(***************************************************************************)
(* Reminder scheduler of reminder-app-rn: the persisted stores (tasks,     *)
(* primary notification schedules, per-occurrence follow-up schedules,     *)
(* acknowledged occurrences), the notification subsystem as seen through   *)
(* scheduleNotificationAsync / cancelScheduledNotificationAsync, and the   *)
(* handlers that drive them (save, delete, toggle acknowledge, the         *)
(* Upcoming query).                                                        *)
(*                                                                         *)
(* Time is counted in whole minutes since the epoch (a JS Date truncated   *)
(* to the minute).  Local wall-clock fields are obtained with TzOffset,    *)
(* without daylight saving.  A handler runs to completion as one step,     *)
(* except in SpecSteps and SpecPair, where it runs from one store access   *)
(* to the next; `now` does not advance inside a handler.                   *)
(*                                                                         *)
(* Specifications:                                                         *)
(*   Spec          hook save/delete, Upcoming screen, clock; the           *)
(*                 subsystem accepts every request                         *)
(*   SpecDetail    Spec plus the task-detail screen (a second view that    *)
(*                 can hold stale acknowledged flags)                      *)
(*   SpecRejecting saves in which the subsystem rejects one request        *)
(*   SpecQuery     the Upcoming query over alternateDays rules with small  *)
(*                 intervals, notifications unavailable (Expo Go)          *)
(*   SpecProvider  the TaskContext provider's add/update/delete            *)
(*   SpecDaily     daily tasks with two times of day, entered in either    *)
(*                 order, and the Upcoming query                           *)
(*   SpecSteps     one handler at a time, step by step; a store access     *)
(*                 may fail, the query may run and the app may be          *)
(*                 terminated between two steps                            *)
(*   SpecPair      two handlers for two different tasks in flight          *)
(*                 together, their steps interleaved                       *)
(*   SpecAnchor    alternateDays tasks whose start date is the day of the  *)
(*                 save or the day after                                   *)
(*   SpecHorizon   an alternateDays task saved and edited by the hook as   *)
(*                 the clock moves on by hours and days                    *)
(*   SpecCancel    hook deletes in which cancel calls are rejected         *)
(*   SpecEdit      provider saves and edits with acknowledge toggles       *)
(*   SpecDuplicate forms whose times of day hold the same time twice       *)
(*   SpecReopen    provider saves with the app closed and reopened between *)
(*   SpecInterval  provider saves of alternateDays tasks whose interval is *)
(*                 negative, 0, positive or missing                        *)
(***************************************************************************)
EXTENDS Integers, Sequences, FiniteSets, TLC

\* ------------------------------------------------------------------------
\* Bounds of the model
\* ------------------------------------------------------------------------
MaxTicks == 2
MaxTasks == 1
MaxArmed == 80
MaxRuns == 3

\* Environment: offset of local time from UTC in minutes, first instant.
TzOffset == 5 * 60 + 30
Start == 20000 * 1440 + 2 * 60 + 30
TickSteps == {240}

\* ------------------------------------------------------------------------
\* Program constants
\* ------------------------------------------------------------------------
DayMinutes == 24 * 60
followupMinutes == 6 * 60
step == 5
horizonDays == 365
lookaheadMinutes == 24 * 60
lookbackMinutes == 6 * 60
dailyIntervalMinutes == (24 * 60 * 60) \div 60
daysToCheck == 3

VARIABLES
  now,               \* wall clock, epoch minutes
  importOk,          \* environment: does import('expo-notifications') work
  Notifications,     \* module variable: "null" or "loaded"
  notificationsError,\* module variable: cached import failure
  tasks,             \* store STORAGE_KEYS.TASKS
  notifications,     \* store STORAGE_KEYS.NOTIFICATIONS
  persistent,        \* store STORAGE_KEYS.PERSISTENT
  acknowledged,      \* store STORAGE_KEYS.ACKNOWLEDGED
  scheduled,         \* notification subsystem: accepted requests, handle = index
  cancelled,         \* notification subsystem: handles that received a cancel call
  stateTasks,        \* TaskProvider in-memory state.tasks (ids)
  occurrences,       \* Upcoming screen state: upcoming rows
  activeReminders,   \* Upcoming screen state: active/missed rows
  ackMap,            \* task-detail screen state: rows key -> acknowledged
  nextTaskId,        \* ids handed out so far (Date.now().toString() is fresh)
  ticks,             \* number of clock advances so far
  lastOp,            \* record of the last handler run (observation only)
  inflight           \* handler runs in progress, step by step (SpecSteps, SpecPair)

vars == <<now, importOk, Notifications, notificationsError, tasks, notifications,
          persistent, acknowledged, scheduled, cancelled, stateTasks,
          occurrences, activeReminders, ackMap, nextTaskId, ticks, lastOp, inflight>>

\* ------------------------------------------------------------------------
\* Date arithmetic
\* ------------------------------------------------------------------------
\* JS remainder: truncated division, sign of the dividend (-0 counts as 0)
JsRem(a, b) == IF a >= 0 THEN a % b ELSE -((-a) % b)

\* Math.floor(a / b) for b > 0
FloorDiv(a, b) == a \div b

\* Date.prototype.toISOString: UTC calendar fields of the instant
toISOString(t) == <<t \div DayMinutes, (t % DayMinutes) \div 60, t % 60>>

\* new Date(isoString)
parseISO(k) == k[1] * DayMinutes + k[2] * 60 + k[3]

\* local midnight of the local day containing t: setHours(0,0,0,0)
setHoursMidnight(t) == ((t + TzOffset) \div DayMinutes) * DayMinutes - TzOffset

\* d.setHours(hh, mm, 0, 0) on the local day of t
setHours(t, hh, mm) == setHoursMidnight(t) + hh * 60 + mm

\* d.setDate(d.getDate() + n)
addDays(t, n) == t + n * DayMinutes

\* d.setMinutes(d.getMinutes() + m)
addMinutes(t, m) == t + m

\* faulty variant of intervalOf: the stored value is used as it is (a missing
\* one as 0), so the offset loop has a step that may not advance
intervalOf_unclamped(task) ==
  IF "alternateInterval" \in DOMAIN task THEN task.alternateInterval ELSE 0

\* Math.max(1, task.alternateInterval || 1); a task object without the field
\* reads undefined
intervalOf(task) ==
  IF "alternateInterval" \in DOMAIN task /\ task.alternateInterval >= 1
    THEN task.alternateInterval
    ELSE 1

\* ------------------------------------------------------------------------
\* Stores (storageUtils): each is a JSON array, read-modify-written whole
\* ------------------------------------------------------------------------
IndexOf(seq, P(_)) ==
  IF \E i \in 1..Len(seq) : P(seq[i])
    THEN CHOOSE i \in 1..Len(seq) : P(seq[i]) /\ \A j \in 1..(i-1) : ~P(seq[j])
    ELSE 0

Upsert(seq, P(_), rec) ==
  LET i == IndexOf(seq, P) IN
  IF i > 0 THEN [seq EXCEPT ![i] = rec] ELSE Append(seq, rec)

\* faulty variant of storageUtils.saveTask: replacing a stored task also
\* drops the acknowledgment records of the task
storageSaveTask_purgesAcks(w, task) ==
  LET same(t) == t.id = task.id
      others(a) == a.taskId # task.id
  IN [w EXCEPT !.tasks = Upsert(@, same, task),
               !.acknowledged = SelectSeq(@, others)]

storageSaveTask(w, task) ==
  LET same(t) == t.id = task.id IN
  [w EXCEPT !.tasks = Upsert(@, same, task)]

storageDeleteTask(w, id) ==
  LET keep(t) == t.id # id IN
  [w EXCEPT !.tasks = SelectSeq(@, keep)]

getTaskById(w, id) ==
  LET same(t) == t.id = id IN
  LET i == IndexOf(w.tasks, same) IN
  IF i > 0 THEN <<w.tasks[i]>> ELSE <<>>

saveNotificationSchedule(w, schedule) ==
  LET same(s) == s.taskId = schedule.taskId IN
  [w EXCEPT !.notifications = Upsert(@, same, schedule)]

getNotificationSchedule(w, taskId) ==
  LET same(s) == s.taskId = taskId IN
  LET i == IndexOf(w.notifications, same) IN
  IF i > 0 THEN w.notifications[i].notificationIds ELSE <<>>

deleteNotificationSchedule(w, taskId) ==
  LET keep(s) == s.taskId # taskId IN
  [w EXCEPT !.notifications = SelectSeq(@, keep)]

savePersistentSchedule(w, taskId, occurrenceKey, notificationIds) ==
  LET same(s) == s.taskId = taskId /\ s.occurrenceKey = occurrenceKey IN
  [w EXCEPT !.persistent =
     Upsert(@, same, [taskId |-> taskId, occurrenceKey |-> occurrenceKey,
                      notificationIds |-> notificationIds])]

getPersistentSchedule(w, taskId, occurrenceKey) ==
  LET same(s) == s.taskId = taskId /\ s.occurrenceKey = occurrenceKey IN
  LET i == IndexOf(w.persistent, same) IN
  IF i > 0 THEN w.persistent[i].notificationIds ELSE <<>>

deletePersistentSchedule(w, taskId, occurrenceKey) ==
  LET keep(s) == ~(s.taskId = taskId /\ s.occurrenceKey = occurrenceKey) IN
  [w EXCEPT !.persistent = SelectSeq(@, keep)]

isOccurrenceAcknowledgedIn(acks, taskId, occurrenceKey) ==
  \E i \in 1..Len(acks) :
     acks[i].taskId = taskId /\ acks[i].occurrenceKey = occurrenceKey

isOccurrenceAcknowledged(w, taskId, occurrenceKey) ==
  isOccurrenceAcknowledgedIn(w.acknowledged, taskId, occurrenceKey)

\* faulty variant of acknowledgeOccurrence: pushes without looking for an
\* existing record
acknowledgeOccurrence_alwaysAppends(w, taskId, occurrenceKey) ==
  [w EXCEPT !.acknowledged =
     Append(@, [taskId |-> taskId, occurrenceKey |-> occurrenceKey])]

acknowledgeOccurrence(w, taskId, occurrenceKey) ==
  IF isOccurrenceAcknowledged(w, taskId, occurrenceKey)
    THEN w
    ELSE [w EXCEPT !.acknowledged =
            Append(@, [taskId |-> taskId, occurrenceKey |-> occurrenceKey])]

unacknowledgeOccurrence(w, taskId, occurrenceKey) ==
  LET keep(a) == ~(a.taskId = taskId /\ a.occurrenceKey = occurrenceKey) IN
  [w EXCEPT !.acknowledged = SelectSeq(@, keep)]

\* ------------------------------------------------------------------------
\* Notification subsystem (expo-notifications) as used by scheduleUtils
\* ------------------------------------------------------------------------
\* World threaded through one handler run.  req counts the arm requests the
\* handler has issued, fails is the set of request ordinals the subsystem
\* rejects in this run, opCancelled/rejected observe what the run did.
\* cancelCalls lists the cancel calls of the run in order, cancelFails is
\* the set of cancel-call ordinals the subsystem rejects (none unless
\* WorldCancelFailing sets it), cancelFailed the handles whose call failed.
World(f) ==
  [tasks |-> tasks, notifications |-> notifications, persistent |-> persistent,
   acknowledged |-> acknowledged, scheduled |-> scheduled, cancelled |-> cancelled,
   Notifications |-> Notifications, notificationsError |-> notificationsError,
   req |-> 0, fails |-> f, opCancelled |-> {}, rejected |-> <<>>,
   cancelCalls |-> <<>>, cancelFails |-> {}, cancelFailed |-> {}]

WorldCancelFailing(c) == [World({}) EXCEPT !.cancelFails = c]

\* Notif.scheduleNotificationAsync(request): the handle, or a rejection
scheduleNotificationAsync(w, request) ==
  IF (w.req + 1) \in w.fails
    THEN [w |-> [w EXCEPT !.req = @ + 1, !.rejected = Append(@, request)],
          ok |-> FALSE, id |-> 0]
    ELSE [w |-> [w EXCEPT !.req = @ + 1, !.scheduled = Append(@, request)],
          ok |-> TRUE, id |-> Len(w.scheduled) + 1]

DateRequest(task, role, at, occ, entry) ==
  [trigger |-> "date", at |-> at, repeats |-> FALSE,
   taskId |-> task.id, role |-> role, occ |-> occ, entry |-> entry]

\* TIME_INTERVAL trigger of 24*60*60 seconds, no repeats flag
IntervalRequest(task, current, entry) ==
  [trigger |-> "timeInterval", at |-> current + dailyIntervalMinutes, repeats |-> FALSE,
   taskId |-> task.id, role |-> "primary", occ |-> 0, entry |-> entry]

\* getNotifications(): lazy import with cached failure
getNotifications(w) ==
  IF w.notificationsError THEN [w |-> w, Notif |-> FALSE]
  ELSE IF w.Notifications = "null"
    THEN IF importOk
           THEN [w |-> [w EXCEPT !.Notifications = "loaded"], Notif |-> TRUE]
           ELSE [w |-> [w EXCEPT !.notificationsError = TRUE], Notif |-> FALSE]
    ELSE [w |-> w, Notif |-> TRUE]

\* getNextOccurrenceForTime(time): <<occ>> or <<>> for null
getNextOccurrenceForTime(time, current) ==
  LET occ0 == setHours(current, time[1], time[2])
      occ == IF occ0 <= current THEN addDays(occ0, 1) ELSE occ0
  IN IF occ - current > 24 * 60 THEN <<>> ELSE <<occ>>

\* a run of arm requests, each in its own try/catch: a rejected request is
\* skipped and the run goes on; ids are the handles of the accepted ones
ArmEach(w, requests) ==
  LET n == Len(requests)
      badIdx == {k \in 1..n : (w.req + k) \in w.fails}
      okIdx == (1..n) \ badIdx
      nthOf(S, other, i) == CHOOSE k \in S : k - Cardinality({j \in other : j < k}) = i
      accepted == IF badIdx = {} THEN requests
                  ELSE [i \in 1..Cardinality(okIdx) |-> requests[nthOf(okIdx, badIdx, i)]]
      refused == [i \in 1..Cardinality(badIdx) |-> requests[nthOf(badIdx, okIdx, i)]]
  IN [w |-> [w EXCEPT !.req = @ + n, !.scheduled = @ \o accepted,
                      !.rejected = @ \o refused],
      ids |-> [i \in 1..Cardinality(okIdx) |-> Len(w.scheduled) + i]]

\* faulty variant of futureMinutes: instants already past are not skipped
futureMinutes_noSkip(occ, current, first) ==
  LET all == {m \in first..followupMinutes : (m - first) % step = 0}
  IN [i \in 1..Cardinality(all) |-> first + (i - 1) * step]

\* faulty variant of futureMinutes: the test is f < new Date(), so that the
\* present instant is not skipped
futureMinutes_keepsPresent(occ, current, first) ==
  LET all == {m \in first..followupMinutes : (m - first) % step = 0}
      fut == {m \in all : ~(addMinutes(occ, m) < current)}
      least == CHOOSE m \in fut : \A x \in fut : m <= x
  IN [i \in 1..Cardinality(fut) |-> least + (i - 1) * step]

\* minutes m = first, first + step, ... <= followupMinutes whose instant
\* occ + m is not skipped by `if (f <= new Date()) continue`, ascending
futureMinutes(occ, current, first) ==
  LET all == {m \in first..followupMinutes : (m - first) % step = 0}
      fut == {m \in all : ~(addMinutes(occ, m) <= current)}
      least == CHOOSE m \in fut : \A x \in fut : m <= x
  IN [i \in 1..Cardinality(fut) |-> least + (i - 1) * step]

\* the for loop of scheduleFollowupsForOccurrence (m = 0, 5, ..., 360)
FollowupLoop(w, task, occ, current) ==
  LET ms == futureMinutes(occ, current, 0) IN
  ArmEach(w, [i \in 1..Len(ms) |->
                DateRequest(task, "followup", addMinutes(occ, ms[i]), occ, 0)])

scheduleFollowupsForOccurrence(w, task, occ, current) ==
  LET r == FollowupLoop(w, task, occ, current) IN
  IF Len(r.ids) > 0
    THEN savePersistentSchedule(r.w, task.id, toISOString(occ), r.ids)
    ELSE r.w

\* schedulePersistentFollowupsForOccurrence(task, occIso)
schedulePersistentFollowupsForOccurrence(w, task, occIso, current) ==
  LET g == getNotifications(w) IN
  IF ~g.Notif THEN g.w
  ELSE scheduleFollowupsForOccurrence(g.w, task, parseISO(occIso), current)

\* scheduleDailyNotification(Notif, task, time): the time argument is not read
scheduleDailyNotification(w, task, time, current, entry) ==
  scheduleNotificationAsync(w, IntervalRequest(task, current, entry))

\* case 'daily' (followups = TRUE) and the customTimes fallback (FALSE):
\* a rejected primary throws to the catch around the switch
RECURSIVE DailyLoop(_, _, _, _, _, _)
DailyLoop(w, task, current, i, notificationIds, followups) ==
  IF i > Len(task.timesInDay) THEN [w |-> w, ids |-> notificationIds]
  ELSE LET r == scheduleDailyNotification(w, task, task.timesInDay[i], current, i) IN
    IF ~r.ok THEN [w |-> r.w, ids |-> notificationIds]
    ELSE LET next == getNextOccurrenceForTime(task.timesInDay[i], current)
             w2 == IF followups /\ Len(next) > 0
                     THEN scheduleFollowupsForOccurrence(r.w, task, next[1], current)
                     ELSE r.w
         IN DailyLoop(w2, task, current, i + 1, Append(notificationIds, r.id), followups)

\* case 'customTimes' with explicit customDateTimes
RECURSIVE CustomLoop(_, _, _, _, _)
CustomLoop(w, task, current, i, notificationIds) ==
  IF i > Len(task.customDateTimes) THEN [w |-> w, ids |-> notificationIds]
  ELSE LET when == parseISO(task.customDateTimes[i]) IN
    IF ~(when > current) THEN CustomLoop(w, task, current, i + 1, notificationIds)
    ELSE LET r == scheduleNotificationAsync(w, DateRequest(task, "primary", when, when, i)) IN
      IF ~r.ok THEN CustomLoop(r.w, task, current, i + 1, notificationIds)
      ELSE CustomLoop(scheduleFollowupsForOccurrence(r.w, task, when, current),
                      task, current, i + 1, Append(notificationIds, r.id))

\* the follow-up loop inside scheduleAlternateDaysForTimes (m = 5, ..., 360)
AltFollowupLoop(w, task, occ, current) ==
  LET ms == futureMinutes(occ, current, step) IN
  ArmEach(w, [i \in 1..Len(ms) |->
                DateRequest(task, "followup", addMinutes(occ, ms[i]), occ, 0)])

\* up to `rounds` consecutive rounds of the offset loop, from `offset` on
RECURSIVE AltOffsetRounds(_, _, _, _, _, _, _)
AltOffsetRounds(w, task, current, i, offset, notificationIds, rounds) ==
  IF rounds = 0 \/ offset > horizonDays
    THEN [w |-> w, ids |-> notificationIds, offset |-> offset]
  ELSE LET time == task.timesInDay[i]
           occ == setHours(addDays(task.createdAt, offset), time[1], time[2])
           nxt == offset + intervalOf(task)
       IN
    IF occ <= current
      THEN AltOffsetRounds(w, task, current, i, nxt, notificationIds, rounds - 1)
    ELSE LET r == scheduleNotificationAsync(w, DateRequest(task, "primary", occ, occ, i)) IN
      IF ~r.ok
        THEN AltOffsetRounds(r.w, task, current, i, nxt, notificationIds, rounds - 1)
      ELSE LET fr == AltFollowupLoop(r.w, task, occ, current)
               w2 == IF Len(fr.ids) > 0
                       THEN savePersistentSchedule(fr.w, task.id, toISOString(occ), fr.ids)
                       ELSE fr.w
           IN AltOffsetRounds(w2, task, current, i, nxt, Append(notificationIds, r.id),
                              rounds - 1)

\* the offset loop of scheduleAlternateDaysForTimes for one time of day:
\* for (offset = 0; offset <= horizonDays; offset += interval), evaluated
\* twenty rounds at a time; AltOffsetResume carries on where a block ended
RECURSIVE AltOffsetLoop(_, _, _, _, _, _)
RECURSIVE AltOffsetResume(_, _, _, _)
AltOffsetResume(r, task, current, i) ==
  AltOffsetLoop(r.w, task, current, i, r.offset, r.ids)

AltOffsetLoop(w, task, current, i, offset, notificationIds) ==
  IF offset > horizonDays THEN [w |-> w, ids |-> notificationIds]
  ELSE AltOffsetResume(AltOffsetRounds(w, task, current, i, offset, notificationIds, 20),
                       task, current, i)

RECURSIVE AltTimesLoop(_, _, _, _, _)
AltTimesLoop(w, task, current, i, notificationIds) ==
  IF i > Len(task.timesInDay) THEN [w |-> w, ids |-> notificationIds]
  ELSE LET r == AltOffsetLoop(w, task, current, i, 0, notificationIds) IN
    AltTimesLoop(r.w, task, current, i + 1, r.ids)

scheduleAlternateDaysForTimes(w, task, current) ==
  AltTimesLoop(w, task, current, 1, <<>>)

\* faulty variant of scheduleTaskNotifications: without the catch around the
\* switch and the ones around each request, a rejected request costs the
\* caller the whole list
scheduleTaskNotifications_losesList(w, task, current) ==
  LET g == getNotifications(w)
      r == IF ~g.Notif THEN [w |-> g.w, ids |-> <<>>]
           ELSE CASE task.scheduleType = "daily" ->
                       DailyLoop(g.w, task, current, 1, <<>>, TRUE)
                  [] task.scheduleType = "alternateDays" ->
                       IF Len(task.timesInDay) > 0
                         THEN scheduleAlternateDaysForTimes(g.w, task, current)
                         ELSE [w |-> g.w, ids |-> <<>>]
                  [] task.scheduleType = "customTimes" ->
                       IF Len(task.customDateTimes) > 0
                         THEN CustomLoop(g.w, task, current, 1, <<>>)
                         ELSE DailyLoop(g.w, task, current, 1, <<>>, FALSE)
  IN IF Len(r.w.rejected) > Len(w.rejected) THEN [w |-> r.w, ids |-> <<>>] ELSE r

scheduleTaskNotifications(w, task, current) ==
  LET g == getNotifications(w) IN
  IF ~g.Notif THEN [w |-> g.w, ids |-> <<>>]
  ELSE CASE task.scheduleType = "daily" ->
              DailyLoop(g.w, task, current, 1, <<>>, TRUE)
         [] task.scheduleType = "alternateDays" ->
              IF Len(task.timesInDay) > 0
                THEN scheduleAlternateDaysForTimes(g.w, task, current)
                ELSE [w |-> g.w, ids |-> <<>>]
         [] task.scheduleType = "customTimes" ->
              IF Len(task.customDateTimes) > 0
                THEN CustomLoop(g.w, task, current, 1, <<>>)
                ELSE DailyLoop(g.w, task, current, 1, <<>>, FALSE)

Range(seq) == {seq[i] : i \in 1..Len(seq)}

\* faulty variant of cancelTaskNotifications: one try/catch around the
\* whole loop, so that the first failing cancel ends it
cancelTaskNotifications_stopsAtFailure(w, notificationIds) ==
  LET g == getNotifications(w)
      n == Len(notificationIds)
      bad == {i \in 1..n : (Len(g.w.cancelCalls) + i) \in g.w.cancelFails}
      last == IF bad = {} THEN n ELSE CHOOSE i \in bad : \A j \in bad : i <= j
      called == SubSeq(notificationIds, 1, last)
      failed == IF bad = {} THEN {} ELSE {notificationIds[last]}
  IN
  IF ~g.Notif THEN g.w
  ELSE [g.w EXCEPT !.cancelCalls = @ \o called,
                   !.cancelFailed = @ \cup failed,
                   !.cancelled = @ \cup (Range(called) \ failed),
                   !.opCancelled = @ \cup Range(called)]

\* cancelTaskNotifications(ids): one cancel call per id in the order of the
\* list, each in its own try/catch; a failed call is logged and the loop
\* goes on
cancelTaskNotifications(w, notificationIds) ==
  LET g == getNotifications(w)
      n == Len(notificationIds)
      failed == {notificationIds[i] :
                   i \in {k \in 1..n : (Len(g.w.cancelCalls) + k) \in g.w.cancelFails}}
  IN
  IF ~g.Notif THEN g.w
  ELSE [g.w EXCEPT !.cancelCalls = @ \o notificationIds,
                   !.cancelFailed = @ \cup failed,
                   !.cancelled = @ \cup (Range(notificationIds) \ failed),
                   !.opCancelled = @ \cup Range(notificationIds)]

rescheduleTaskNotifications(w, task, oldNotificationIds, current) ==
  scheduleTaskNotifications(cancelTaskNotifications(w, oldNotificationIds), task, current)

\* ------------------------------------------------------------------------
\* Upcoming screen: loadUpcoming
\* ------------------------------------------------------------------------
Row(task, occ, acks) ==
  [taskId |-> task.id, date |-> occ, key |-> toISOString(occ),
   acknowledged |-> isOccurrenceAcknowledgedIn(acks, task.id, toISOString(occ))]

\* faulty variant of cadenceKeeps: days before the anchor are dropped
cadenceKeeps_afterAnchorOnly(task, occ) ==
  LET baseDate == IF task.startDate # 0 THEN task.startDate ELSE task.createdAt
      diffDays == FloorDiv(occ - setHoursMidnight(baseDate), DayMinutes)
  IN diffDays >= 0 /\ JsRem(diffDays, intervalOf(task)) = 0

\* the cadence test of the alternateDays branch: TRUE when the row is kept
cadenceKeeps(task, occ) ==
  LET baseDate == IF task.startDate # 0 THEN task.startDate ELSE task.createdAt
      diffDays == FloorDiv(occ - setHoursMidnight(baseDate), DayMinutes)
  IN JsRem(diffDays, intervalOf(task)) = 0

\* instants a task contributes, in the order the loops visit them
RECURSIVE dayTimeInstants(_, _, _, _)
dayTimeInstants(task, current, d, i) ==
  IF d >= daysToCheck THEN <<>>
  ELSE IF i > Len(task.timesInDay) THEN dayTimeInstants(task, current, d + 1, 1)
  ELSE LET base == setHoursMidnight(addDays(current, d))
           occ == setHours(base, task.timesInDay[i][1], task.timesInDay[i][2])
           rest == dayTimeInstants(task, current, d, i + 1)
       IN IF task.scheduleType = "alternateDays" /\ ~cadenceKeeps(task, occ)
            THEN rest
            ELSE <<occ>> \o rest

\* faulty variant of derivedInstants: a customTimes task is always expanded
\* from timesInDay on the present day, its stored date-times unread
derivedInstants_timesOnly(task, current) ==
  CASE task.scheduleType \in {"daily", "alternateDays"} ->
         dayTimeInstants(task, current, -1, 1)
    [] task.scheduleType = "customTimes" ->
         [i \in 1..Len(task.timesInDay) |->
            setHours(current, task.timesInDay[i][1], task.timesInDay[i][2])]

derivedInstants(task, current) ==
  CASE task.scheduleType \in {"daily", "alternateDays"} ->
         dayTimeInstants(task, current, -1, 1)
    [] task.scheduleType = "customTimes" ->
         IF Len(task.customDateTimes) > 0
           THEN [i \in 1..Len(task.customDateTimes) |-> parseISO(task.customDateTimes[i])]
           ELSE [i \in 1..Len(task.timesInDay) |->
                   setHours(current, task.timesInDay[i][1], task.timesInDay[i][2])]

isUpcoming(occ, current) == occ >= current /\ occ <= current + lookaheadMinutes

\* faulty variant of isActive: the acknowledged flag is not consulted
isActive_ignoresAck(occ, current, acked) ==
  ~isUpcoming(occ, current) /\ occ < current /\ occ >= current - lookbackMinutes

isActive(occ, current, acked) ==
  ~isUpcoming(occ, current) /\ occ < current /\ occ >= current - lookbackMinutes /\ ~acked

RECURSIVE allRows(_, _, _, _)
allRows(ts, acks, current, i) ==
  IF i > Len(ts) THEN <<>>
  ELSE LET inst == derivedInstants(ts[i], current)
       IN [j \in 1..Len(inst) |-> Row(ts[i], inst[j], acks)] \o allRows(ts, acks, current, i + 1)

\* faulty variant of SortRows: the rows stay in the order they were pushed
SortRows_pushOrder(rows, asc) == rows

\* Array.prototype.sort with a comparator on dates (stable)
RECURSIVE InsertSorted(_, _, _)
InsertSorted(sorted, r, asc) ==
  IF sorted = <<>> THEN <<r>>
  ELSE LET last == sorted[Len(sorted)] IN
    IF (asc /\ last.date <= r.date) \/ (~asc /\ last.date >= r.date)
      THEN Append(sorted, r)
      ELSE Append(InsertSorted(SubSeq(sorted, 1, Len(sorted) - 1), r, asc), last)

RECURSIVE SortRows(_, _)
SortRows(rows, asc) ==
  IF rows = <<>> THEN <<>>
  ELSE InsertSorted(SortRows(SubSeq(rows, 1, Len(rows) - 1), asc), rows[Len(rows)], asc)

loadUpcoming(w, current) ==
  LET rows == allRows(w.tasks, w.acknowledged, current, 1)
      up(r) == isUpcoming(r.date, current)
      act(r) == isActive(r.date, current, r.acknowledged)
  IN [occurrences |-> SortRows(SelectSeq(rows, up), TRUE),
      activeReminders |-> SortRows(SelectSeq(rows, act), FALSE)]

\* getUpcomingCountForTask(task): the count shown on a task card; days
\* d = 0, 1, the interval test against createdAt
getUpcomingCountForTask(task, current) ==
  LET end == current + lookaheadMinutes
      inWindow(occ) == occ >= current /\ occ <= end
      dayOcc(d, i) == setHours(setHoursMidnight(addDays(current, d)),
                               task.timesInDay[i][1], task.timesInDay[i][2])
      onCadence(occ) ==
        JsRem(FloorDiv(occ - setHoursMidnight(task.createdAt), DayMinutes),
              intervalOf(task)) = 0
  IN
  CASE task.scheduleType \in {"daily", "alternateDays"} ->
         Cardinality({ di \in (0..1) \X (1..Len(task.timesInDay)) :
                         /\ inWindow(dayOcc(di[1], di[2]))
                         /\ task.scheduleType = "alternateDays"
                              => onCadence(dayOcc(di[1], di[2])) })
    [] task.scheduleType = "customTimes" ->
         IF Len(task.customDateTimes) > 0
           THEN Cardinality({ i \in 1..Len(task.customDateTimes) :
                                inWindow(parseISO(task.customDateTimes[i])) })
           ELSE Cardinality({ i \in 1..Len(task.timesInDay) :
                                inWindow(setHours(current, task.timesInDay[i][1],
                                                  task.timesInDay[i][2])) })

\* ------------------------------------------------------------------------
\* Inputs: what TaskForm.handleSave can hand to saveTask
\* ------------------------------------------------------------------------
localTimeOf(t) == <<((t + TzOffset) % DayMinutes) \div 60, (t + TzOffset) % 60>>

\* two custom date-times the picker can hold: one inside the next 24 hours,
\* one beyond them (validateForm demands that both are in the future)
CustomInstantsAt(current) == <<current + 60, current + 30 * 60>>

DailyForm(times) ==
  [scheduleType |-> "daily", timesInDay |-> times,
   alternateInterval |-> 2, startDate |-> 0, customDateTimes |-> <<>>]

\* startDate is the picked day at 12:00 (the form's default is today)
AlternateForm(times, interval, picked) ==
  [scheduleType |-> "alternateDays", timesInDay |-> times,
   alternateInterval |-> interval, startDate |-> setHours(picked, 12, 0),
   customDateTimes |-> <<>>]

CustomForm(instants) ==
  [scheduleType |-> "customTimes",
   timesInDay |-> [i \in 1..Len(instants) |-> localTimeOf(instants[i])],
   alternateInterval |-> 2, startDate |-> 0,
   customDateTimes |-> [i \in 1..Len(instants) |-> toISOString(instants[i])]]

\* forms of Spec: one time of day; the alternateDays interval leaves two
\* occurrences inside the 365-day horizon
FormInputs(current) ==
  { DailyForm(<< <<9, 0>> >>),
    AlternateForm(<< <<9, 0>> >>, 183, current),
    CustomForm(CustomInstantsAt(current)) }

\* forms of SpecRejecting: every schedule type arms two occurrences
RejectForms(current) ==
  { DailyForm(<< <<9, 0>>, <<21, 0>> >>),
    AlternateForm(<< <<9, 0>> >>, 183, current),
    CustomForm(CustomInstantsAt(current)) }

\* forms of SpecQuery: short intervals, anchors before and after today
CadenceForms(current) ==
  { AlternateForm(<< <<9, 0>>, <<21, 0>> >>, n, addDays(current, k)) :
      n \in {2, 3}, k \in {-1, 0, 3} }

\* forms of SpecDetail: the daily form alone
DetailForms(current) == { DailyForm(<< <<9, 0>> >>) }

\* request ordinals the subsystem may reject within one handler run: none,
\* one of them, or every one
NoReject == {{}}
RejectAll == 1..(2 * 75)
RejectChoices == {{1}, {2}, {74}, {75}, RejectAll}

\* cancel-call ordinals the subsystem may reject within one handler run
CancelFailChoices == {{}, {1}, {2}, {1, 2}}

\* clock advances: four hours in Spec; five hours or a day in SpecQuery
QuerySteps == {300, 1440}

\* TaskForm.handleSave: id and createdAt come from initialTask when editing
BuildTask(form, id, createdAt) ==
  [id |-> id, scheduleType |-> form.scheduleType, timesInDay |-> form.timesInDay,
   alternateInterval |-> form.alternateInterval, startDate |-> form.startDate,
   customDateTimes |-> form.customDateTimes, createdAt |-> createdAt]

StoredIds == {tasks[i].id : i \in 1..Len(tasks)}

StoredTask(id) == getTaskById([tasks |-> tasks], id)[1]

NoOp ==
  [op |-> "none", taskId |-> 0, key |-> <<>>, at |-> 0, edit |-> FALSE,
   ids |-> <<>>, cancelled |-> {}, rejected |-> <<>>, before |-> 0,
   prev |-> <<"none", 0, <<>>>>, listedAt |-> 0,
   cancelCalls |-> <<>>, cancelFailed |-> {}]

\* observation of a handler run: what it was, what it returned and did
OpRecord(name, taskId, key, edit, ids, w) ==
  [op |-> name, taskId |-> taskId, key |-> key, at |-> now, edit |-> edit,
   ids |-> ids, cancelled |-> w.opCancelled, rejected |-> w.rejected,
   before |-> Len(scheduled),
   prev |-> <<lastOp.op, lastOp.taskId, lastOp.key>>, listedAt |-> 0,
   cancelCalls |-> w.cancelCalls, cancelFailed |-> w.cancelFailed]

\* write a world back to the state
Commit(w) ==
  /\ tasks' = w.tasks
  /\ notifications' = w.notifications
  /\ persistent' = w.persistent
  /\ acknowledged' = w.acknowledged
  /\ scheduled' = w.scheduled
  /\ cancelled' = w.cancelled
  /\ Notifications' = w.Notifications
  /\ notificationsError' = w.notificationsError

\* ------------------------------------------------------------------------
\* useTaskStorage (hook): saveTask, deleteTask
\* ------------------------------------------------------------------------
useTaskStorage_saveTask(w, task, current) ==
  LET oldNotificationIds == getNotificationSchedule(w, task.id)
      r == IF Len(oldNotificationIds) > 0
             THEN rescheduleTaskNotifications(w, task, oldNotificationIds, current)
             ELSE scheduleTaskNotifications(w, task, current)
      w2 == storageSaveTask(r.w, task)
  IN [w |-> saveNotificationSchedule(w2, [taskId |-> task.id, notificationIds |-> r.ids]),
      ids |-> r.ids]

useTaskStorage_deleteTask(w, taskId) ==
  LET notificationIds == getNotificationSchedule(w, taskId)
      w1 == IF Len(notificationIds) > 0 THEN cancelTaskNotifications(w, notificationIds) ELSE w
  IN deleteNotificationSchedule(storageDeleteTask(w1, taskId), taskId)

\* ------------------------------------------------------------------------
\* TaskContext (provider): addTask, updateTask, deleteTask, saveTask alias
\* ------------------------------------------------------------------------
TaskProvider_addTask(w, task, current) ==
  LET w1 == storageSaveTask(w, task)
      r == scheduleTaskNotifications(w1, task, current)
  IN [w |-> saveNotificationSchedule(r.w, [taskId |-> task.id, notificationIds |-> r.ids]),
      ids |-> r.ids]

TaskProvider_updateTask(w, task, current) ==
  LET w1 == storageSaveTask(w, task)
      oldIds == getNotificationSchedule(w1, task.id)
      r == rescheduleTaskNotifications(w1, task, oldIds, current)
  IN [w |-> saveNotificationSchedule(r.w, [taskId |-> task.id, notificationIds |-> r.ids]),
      ids |-> r.ids]

TaskProvider_deleteTask(w, taskId) ==
  LET notificationIds == getNotificationSchedule(w, taskId)
      w1 == IF Len(notificationIds) > 0 THEN cancelTaskNotifications(w, notificationIds) ELSE w
  IN storageDeleteTask(deleteNotificationSchedule(w1, taskId), taskId)

\* taskReducer
reduceAdd(st, task) == Append(st, task)
reduceUpdate(st, task) == [i \in 1..Len(st) |-> IF st[i].id = task.id THEN task ELSE st[i]]
reduceDelete(st, id) == LET keep(t) == t.id # id IN SelectSeq(st, keep)

\* ------------------------------------------------------------------------
\* Acknowledge toggles (upcoming.tsx handleToggleAck, task-detail.tsx
\* handleAcknowledge): the two branches
\* ------------------------------------------------------------------------
acknowledgeBranch(w, taskId, occKey) ==
  LET ids == getPersistentSchedule(w, taskId, occKey)
      w1 == IF Len(ids) > 0
              THEN deletePersistentSchedule(cancelTaskNotifications(w, ids), taskId, occKey)
              ELSE w
  IN acknowledgeOccurrence(w1, taskId, occKey)

unacknowledgeBranch(w, taskId, occKey, current) ==
  schedulePersistentFollowupsForOccurrence(
    unacknowledgeOccurrence(w, taskId, occKey), [id |-> taskId], occKey, current)

handleToggle(w, taskId, occKey, currentlyAcked, current) ==
  IF currentlyAcked
    THEN unacknowledgeBranch(w, taskId, occKey, current)
    ELSE acknowledgeBranch(w, taskId, occKey)

\* ------------------------------------------------------------------------
\* task-detail.tsx: loadUpcoming of one task (items of the next 24 hours)
\* ------------------------------------------------------------------------
RECURSIVE detailDayTimes(_, _, _, _)
detailDayTimes(task, current, d, i) ==
  IF d >= 2 THEN <<>>
  ELSE IF i > Len(task.timesInDay) THEN detailDayTimes(task, current, d + 1, 1)
  ELSE LET base == setHoursMidnight(addDays(current, d))
           occ == setHours(base, task.timesInDay[i][1], task.timesInDay[i][2])
           rest == detailDayTimes(task, current, d, i + 1)
       IN IF isUpcoming(occ, current)
             /\ (task.scheduleType = "alternateDays" => cadenceKeeps(task, occ))
            THEN <<occ>> \o rest
            ELSE rest

detailItems(task, current) ==
  LET up(t) == isUpcoming(t, current) IN
  CASE task.scheduleType \in {"daily", "alternateDays"} ->
         detailDayTimes(task, current, 0, 1)
    [] task.scheduleType = "customTimes" ->
         SelectSeq(derivedInstants(task, current), up)

detailAckMap(task, acks, current) ==
  LET items == detailItems(task, current) IN
  { [key |-> toISOString(items[i]),
     acked |-> isOccurrenceAcknowledgedIn(acks, task.id, toISOString(items[i]))]
    : i \in 1..Len(items) }

\* ------------------------------------------------------------------------
\* Actions
\* ------------------------------------------------------------------------
UIUnchanged == UNCHANGED <<occurrences, activeReminders, ackMap>>

\* the task the form submits: a new id, or an edit of a stored task
SaveInputs(forms) ==
  { BuildTask(form, id, IF id \in StoredIds THEN StoredTask(id).createdAt ELSE now)
    : form \in forms,
      id \in StoredIds \cup (IF nextTaskId < MaxTasks THEN {nextTaskId + 1} ELSE {}) }

\* TaskFormScreen with useTaskStorage().saveTask, for one submitted task
Submit(task, f) ==
  LET r == useTaskStorage_saveTask(World(f), task, now) IN
  /\ Commit(r.w)
  /\ nextTaskId' = IF task.id > nextTaskId THEN task.id ELSE nextTaskId
  /\ lastOp' = OpRecord("save", task.id, <<>>, task.id \in StoredIds, r.ids, r.w)
  /\ UNCHANGED <<now, importOk, stateTasks, ticks, inflight>>
  /\ UIUnchanged

HookSaveTask ==
  /\ Len(scheduled) < MaxArmed
  /\ \E task \in SaveInputs(FormInputs(now)), f \in NoReject : Submit(task, f)

HookSaveTaskRejected ==
  /\ Len(scheduled) < MaxArmed
  /\ \E task \in SaveInputs(RejectForms(now)), f \in RejectChoices : Submit(task, f)

HookSaveCadence ==
  /\ Len(scheduled) < MaxArmed
  /\ \E task \in SaveInputs(CadenceForms(now)), f \in NoReject : Submit(task, f)

HookSaveDaily ==
  /\ Len(scheduled) < MaxArmed
  /\ \E task \in SaveInputs(DetailForms(now)), f \in NoReject : Submit(task, f)

\* TaskFormScreen with useTaskActions().saveTask
CtxSaveTask ==
  /\ Len(scheduled) < MaxArmed
  /\ \E task \in SaveInputs(FormInputs(now)) :
       LET exists == \E i \in 1..Len(stateTasks) : stateTasks[i].id = task.id
           r == IF exists THEN TaskProvider_updateTask(World({}), task, now)
                          ELSE TaskProvider_addTask(World({}), task, now)
       IN
       /\ Commit(r.w)
       /\ stateTasks' = IF exists THEN reduceUpdate(stateTasks, task)
                                  ELSE reduceAdd(stateTasks, task)
       /\ nextTaskId' = IF task.id > nextTaskId THEN task.id ELSE nextTaskId
       /\ lastOp' = OpRecord("save", task.id, <<>>, task.id \in StoredIds, r.ids, r.w)
  /\ UNCHANGED <<now, importOk, ticks, inflight>>
  /\ UIUnchanged

HookDeleteTask ==
  /\ \E id \in StoredIds :
       LET w == useTaskStorage_deleteTask(World({}), id) IN
       /\ Commit(w)
       /\ lastOp' = OpRecord("delete", id, <<>>, FALSE, <<>>, w)
  /\ UNCHANGED <<now, importOk, stateTasks, nextTaskId, ticks, inflight>>
  /\ UIUnchanged

\* useTaskStorage().deleteTask while the subsystem rejects some of the
\* cancel calls (a handle unknown to it or already fired)
HookDeleteCancelFailing ==
  /\ \E id \in StoredIds, c \in CancelFailChoices :
       LET w == useTaskStorage_deleteTask(WorldCancelFailing(c), id) IN
       /\ Commit(w)
       /\ lastOp' = OpRecord("delete", id, <<>>, FALSE, <<>>, w)
  /\ UNCHANGED <<now, importOk, stateTasks, nextTaskId, ticks, inflight>>
  /\ UIUnchanged

CtxDeleteTask ==
  /\ \E id \in StoredIds :
       LET w == TaskProvider_deleteTask(World({}), id) IN
       /\ Commit(w)
       /\ stateTasks' = reduceDelete(stateTasks, id)
       /\ lastOp' = OpRecord("delete", id, <<>>, FALSE, <<>>, w)
  /\ UNCHANGED <<now, importOk, nextTaskId, ticks, inflight>>
  /\ UIUnchanged

\* the app is closed and opened again: the stores and the armed
\* notifications stay; the provider's task list is empty until a screen
\* calls loadTasks, the screens' lists and the module state are new
Reopen ==
  /\ tasks # <<>>
  /\ stateTasks' = <<>>
  /\ Notifications' = "null"
  /\ notificationsError' = FALSE
  /\ occurrences' = <<>>
  /\ activeReminders' = <<>>
  /\ ackMap' = [taskId |-> 0, rows |-> {}]
  /\ UNCHANGED <<now, importOk, tasks, notifications, persistent, acknowledged,
                 scheduled, cancelled, nextTaskId, ticks, lastOp, inflight>>

\* TaskProvider.loadTasks
CtxLoadTasks ==
  /\ stateTasks' = tasks
  /\ UNCHANGED <<now, importOk, Notifications, notificationsError, tasks, notifications,
                 persistent, acknowledged, scheduled, cancelled, nextTaskId, ticks, lastOp,
                 inflight>>
  /\ UIUnchanged

\* Upcoming screen mount: loadUpcoming; listedAt notes when the lists were read
LoadUpcoming ==
  /\ LET l == loadUpcoming(World({}), now) IN
       /\ occurrences' = l.occurrences
       /\ activeReminders' = l.activeReminders
  /\ lastOp' = [lastOp EXCEPT !.listedAt = now]
  /\ UNCHANGED <<now, importOk, Notifications, notificationsError, tasks, notifications,
                 persistent, acknowledged, scheduled, cancelled, stateTasks, ackMap,
                 nextTaskId, ticks, inflight>>

\* rows the Upcoming screen offers: upcoming rows toggle, active rows acknowledge
ToggleRows ==
  {[taskId |-> occurrences[i].taskId, key |-> occurrences[i].key,
    currentlyAcked |-> occurrences[i].acknowledged] : i \in 1..Len(occurrences)}
  \cup
  {[taskId |-> activeReminders[i].taskId, key |-> activeReminders[i].key,
    currentlyAcked |-> FALSE] : i \in 1..Len(activeReminders)}

\* upcoming.tsx handleToggleAck, with its trailing loadUpcoming
ToggleAck ==
  /\ \E row \in ToggleRows :
       /\ row.currentlyAcked => Len(scheduled) < MaxArmed
       /\ LET w == handleToggle(World({}), row.taskId, row.key, row.currentlyAcked, now)
              l == loadUpcoming(w, now)
          IN
          /\ Commit(w)
          /\ occurrences' = l.occurrences
          /\ activeReminders' = l.activeReminders
          /\ lastOp' = [OpRecord(IF row.currentlyAcked THEN "unack" ELSE "ack",
                                 row.taskId, row.key, FALSE, <<>>, w)
                          EXCEPT !.listedAt = now]
  /\ UNCHANGED <<now, importOk, stateTasks, ackMap, nextTaskId, ticks, inflight>>

\* task-detail.tsx: open the Upcoming tab of a stored task
DetailLoad ==
  /\ \E id \in StoredIds :
       ackMap' = [taskId |-> id, rows |-> detailAckMap(StoredTask(id), acknowledged, now)]
  /\ UNCHANGED <<now, importOk, Notifications, notificationsError, tasks, notifications,
                 persistent, acknowledged, scheduled, cancelled, stateTasks,
                 occurrences, activeReminders, nextTaskId, ticks, lastOp,
                 inflight>>

\* task-detail.tsx handleAcknowledge
DetailAcknowledge ==
  /\ \E row \in ackMap.rows :
       /\ row.acked => Len(scheduled) < MaxArmed
       /\ LET w == handleToggle(World({}), ackMap.taskId, row.key, row.acked, now) IN
          /\ Commit(w)
          /\ ackMap' = [ackMap EXCEPT !.rows =
                          (@ \ {row}) \cup {[key |-> row.key, acked |-> ~row.acked]}]
          /\ lastOp' = OpRecord(IF row.acked THEN "unack" ELSE "ack",
                                ackMap.taskId, row.key, FALSE, <<>>, w)
  /\ UNCHANGED <<now, importOk, stateTasks, occurrences, activeReminders, nextTaskId, ticks,
                 inflight>>

\* the clock advances between handlers
Advance(d) ==
  /\ now' = now + d
  /\ ticks' = ticks + 1
  /\ UNCHANGED <<importOk, Notifications, notificationsError, tasks, notifications,
                 persistent, acknowledged, scheduled, cancelled, stateTasks,
                 occurrences, activeReminders, ackMap, nextTaskId, lastOp,
                 inflight>>

Tick ==
  /\ ticks < MaxTicks
  /\ \E d \in TickSteps : Advance(d)

TickQuery ==
  /\ ticks < MaxTicks
  /\ \E d \in QuerySteps : Advance(d)

\* ------------------------------------------------------------------------
\* Handlers step by step.  An async handler suspends at every await; what
\* another handler or a failure can come between are its accesses to the
\* stores, so a step runs from one store access to the next.  A storageUtils
\* function reads its collection (getItem), awaits, and then writes the
\* modified copy (setItem): two steps, with the copy held in `snap`.
\* ------------------------------------------------------------------------
\* the handler runs that can be in progress at once
Procs == {1, 2}

NoTask == BuildTask(DailyForm(<<>>), 0, 0)

\* no handler running
Idle ==
  [status |-> "idle", op |-> "none", pc |-> "-", task |-> NoTask, key |-> <<>>,
   ids |-> <<>>, newIds |-> <<>>, i |-> 0, fids |-> <<>>, occ |-> 0, snap |-> <<>>,
   failed |-> "-", queried |-> FALSE, before |-> 0, start |-> <<>>, run |-> 0]

\* a handler called with the stores and the subsystem as they are
Begin(w, op, pc, task, key, run) ==
  [Idle EXCEPT !.status = "running", !.op = op, !.pc = pc, !.task = task,
               !.key = key, !.before = Len(w.scheduled), !.start = <<w>>,
               !.run = run]

\* mmkvStorage.getItem: the stored array; a failed read is caught and gives
\* null, which every caller turns into []
getItem(collection, fails) == IF fails THEN <<>> ELSE collection

\* steps that read a store, and steps that write one
ReadSteps ==
  {"s_getOld", "s_readP", "s_readT", "s_readN", "d_getIds", "d_readT", "d_readN",
   "a_getIds", "a_readP", "a_readA", "u_readA", "u_readP"}

WriteSteps ==
  {"s_writeP", "s_writeT", "s_writeN", "d_writeT", "d_writeN",
   "a_writeP", "a_writeA", "u_writeA", "u_writeP"}

Goto(p, pc) == [p EXCEPT !.pc = pc]

\* the handler's catch: it ends with the error (rethrown by the hook, shown
\* as a toast by the screens)
Throw(p) == [p EXCEPT !.status = "threw"]

Return(p) == [p EXCEPT !.status = "done", !.pc = "-"]

\* the store access of this step failed
Failed(p) == [p EXCEPT !.failed = p.pc]

\* useTaskStorage.saveTask(task) for a daily task, step by step
saveTask_step(w, p, fails, current) ==
  LET task == p.task
      q == IF fails THEN Failed(p) ELSE p
  IN
  CASE p.pc = "s_getOld" ->
         LET old == getNotificationSchedule(
                      [notifications |-> getItem(w.notifications, fails)], task.id)
         IN [w |-> w, p |-> [Goto(q, "s_begin") EXCEPT !.ids = old]]
    [] p.pc = "s_begin" ->
         LET w1 == IF Len(p.ids) > 0 THEN cancelTaskNotifications(w, p.ids) ELSE w
             g == getNotifications(w1)
         IN [w |-> g.w,
             p |-> IF g.Notif THEN [Goto(p, "s_arm") EXCEPT !.i = 1]
                              ELSE Goto(p, "s_readT")]
    [] p.pc = "s_arm" ->
         IF p.i > Len(task.timesInDay) THEN [w |-> w, p |-> Goto(p, "s_readT")]
         ELSE LET r == scheduleDailyNotification(w, task, task.timesInDay[p.i], current, p.i)
                  next == getNextOccurrenceForTime(task.timesInDay[p.i], current)
                  fr == FollowupLoop(r.w, task, next[1], current)
                  armed == [p EXCEPT !.newIds = Append(@, r.id)]
              IN IF ~r.ok THEN [w |-> r.w, p |-> Goto(p, "s_readT")]
                 ELSE IF Len(next) > 0 /\ Len(fr.ids) > 0
                   THEN [w |-> fr.w,
                         p |-> [Goto(armed, "s_readP") EXCEPT !.fids = fr.ids,
                                                              !.occ = next[1]]]
                   ELSE [w |-> IF Len(next) > 0 THEN fr.w ELSE r.w,
                         p |-> [armed EXCEPT !.i = @ + 1]]
    [] p.pc = "s_readP" ->
         [w |-> w, p |-> [Goto(q, "s_writeP") EXCEPT !.snap = getItem(w.persistent, fails)]]
    [] p.pc = "s_writeP" ->
         \* a failed write is caught inside scheduleFollowupsForOccurrence
         [w |-> IF fails THEN w
                ELSE [w EXCEPT !.persistent =
                        savePersistentSchedule([persistent |-> p.snap], task.id,
                                               toISOString(p.occ), p.fids).persistent],
          p |-> [Goto(q, "s_arm") EXCEPT !.i = @ + 1]]
    [] p.pc = "s_readT" ->
         [w |-> w, p |-> [Goto(q, "s_writeT") EXCEPT !.snap = getItem(w.tasks, fails)]]
    [] p.pc = "s_writeT" ->
         IF fails THEN [w |-> w, p |-> Throw(q)]
         ELSE [w |-> [w EXCEPT !.tasks = storageSaveTask([tasks |-> p.snap], task).tasks],
               p |-> Goto(p, "s_readN")]
    [] p.pc = "s_readN" ->
         [w |-> w, p |-> [Goto(q, "s_writeN") EXCEPT !.snap = getItem(w.notifications, fails)]]
    [] p.pc = "s_writeN" ->
         IF fails THEN [w |-> w, p |-> Throw(q)]
         ELSE [w |-> [w EXCEPT !.notifications =
                        saveNotificationSchedule([notifications |-> p.snap],
                          [taskId |-> task.id, notificationIds |-> p.newIds]).notifications],
               p |-> Return(p)]

\* useTaskStorage.deleteTask(taskId), step by step
deleteTask_step(w, p, fails) ==
  LET taskId == p.task.id
      q == IF fails THEN Failed(p) ELSE p
  IN
  CASE p.pc = "d_getIds" ->
         LET ids == getNotificationSchedule(
                      [notifications |-> getItem(w.notifications, fails)], taskId)
         IN [w |-> w,
             p |-> [Goto(q, IF Len(ids) > 0 THEN "d_cancel" ELSE "d_readT") EXCEPT !.ids = ids]]
    [] p.pc = "d_cancel" ->
         [w |-> cancelTaskNotifications(w, p.ids), p |-> Goto(p, "d_readT")]
    [] p.pc = "d_readT" ->
         [w |-> w, p |-> [Goto(q, "d_writeT") EXCEPT !.snap = getItem(w.tasks, fails)]]
    [] p.pc = "d_writeT" ->
         IF fails THEN [w |-> w, p |-> Throw(q)]
         ELSE [w |-> [w EXCEPT !.tasks = storageDeleteTask([tasks |-> p.snap], taskId).tasks],
               p |-> Goto(p, "d_readN")]
    [] p.pc = "d_readN" ->
         [w |-> w, p |-> [Goto(q, "d_writeN") EXCEPT !.snap = getItem(w.notifications, fails)]]
    [] p.pc = "d_writeN" ->
         IF fails THEN [w |-> w, p |-> Throw(q)]
         ELSE [w |-> [w EXCEPT !.notifications =
                        deleteNotificationSchedule([notifications |-> p.snap], taskId).notifications],
               p |-> Return(p)]

\* upcoming.tsx handleToggleAck, acknowledge branch, step by step
handleToggleAck_ackStep(w, p, fails) ==
  LET taskId == p.task.id
      q == IF fails THEN Failed(p) ELSE p
  IN
  CASE p.pc = "a_getIds" ->
         LET ids == getPersistentSchedule(
                      [persistent |-> getItem(w.persistent, fails)], taskId, p.key)
         IN [w |-> w,
             p |-> [Goto(q, IF Len(ids) > 0 THEN "a_cancel" ELSE "a_readA") EXCEPT !.ids = ids]]
    [] p.pc = "a_cancel" ->
         [w |-> cancelTaskNotifications(w, p.ids), p |-> Goto(p, "a_readP")]
    [] p.pc = "a_readP" ->
         [w |-> w, p |-> [Goto(q, "a_writeP") EXCEPT !.snap = getItem(w.persistent, fails)]]
    [] p.pc = "a_writeP" ->
         IF fails THEN [w |-> w, p |-> Throw(q)]
         ELSE [w |-> [w EXCEPT !.persistent =
                        deletePersistentSchedule([persistent |-> p.snap], taskId, p.key).persistent],
               p |-> Goto(p, "a_readA")]
    [] p.pc = "a_readA" ->
         LET all == getItem(w.acknowledged, fails) IN
         [w |-> w,
          p |-> [Goto(q, IF isOccurrenceAcknowledgedIn(all, taskId, p.key)
                           THEN "load" ELSE "a_writeA") EXCEPT !.snap = all]]
    [] p.pc = "a_writeA" ->
         IF fails THEN [w |-> w, p |-> Throw(q)]
         ELSE [w |-> [w EXCEPT !.acknowledged =
                        acknowledgeOccurrence([acknowledged |-> p.snap], taskId, p.key).acknowledged],
               p |-> Goto(p, "load")]
    [] p.pc = "load" -> [w |-> w, p |-> Return(p)]

\* upcoming.tsx handleToggleAck, unacknowledge branch, step by step
handleToggleAck_unackStep(w, p, fails, current) ==
  LET taskId == p.task.id
      q == IF fails THEN Failed(p) ELSE p
  IN
  CASE p.pc = "u_readA" ->
         [w |-> w, p |-> [Goto(q, "u_writeA") EXCEPT !.snap = getItem(w.acknowledged, fails)]]
    [] p.pc = "u_writeA" ->
         IF fails THEN [w |-> w, p |-> Throw(q)]
         ELSE [w |-> [w EXCEPT !.acknowledged =
                        unacknowledgeOccurrence([acknowledged |-> p.snap], taskId, p.key).acknowledged],
               p |-> Goto(p, "u_followups")]
    [] p.pc = "u_followups" ->
         LET g == getNotifications(w)
             fr == FollowupLoop(g.w, [id |-> taskId], parseISO(p.key), current)
         IN IF ~g.Notif THEN [w |-> g.w, p |-> Goto(p, "load")]
            ELSE IF Len(fr.ids) > 0
              THEN [w |-> fr.w, p |-> [Goto(p, "u_readP") EXCEPT !.fids = fr.ids]]
              ELSE [w |-> fr.w, p |-> Goto(p, "load")]
    [] p.pc = "u_readP" ->
         [w |-> w, p |-> [Goto(q, "u_writeP") EXCEPT !.snap = getItem(w.persistent, fails)]]
    [] p.pc = "u_writeP" ->
         \* a failed write is caught inside scheduleFollowupsForOccurrence
         [w |-> IF fails THEN w
                ELSE [w EXCEPT !.persistent =
                        savePersistentSchedule([persistent |-> p.snap], taskId,
                                               p.key, p.fids).persistent],
          p |-> Goto(q, "load")]
    [] p.pc = "load" -> [w |-> w, p |-> Return(p)]

\* one step of a handler run
HandlerStep(w, p, fails, current) ==
  CASE p.op = "save" -> saveTask_step(w, p, fails, current)
    [] p.op = "delete" -> deleteTask_step(w, p, fails)
    [] p.op = "ack" -> handleToggleAck_ackStep(w, p, fails)
    [] p.op = "unack" -> handleToggleAck_unackStep(w, p, fails, current)

Running(n) == inflight[n].status = "running"

NoneRunning == \A n \in Procs : ~Running(n)

\* a running handler takes its next step; storeFails tells whether the
\* store access of the step, if it has one, can fail
Step(n, storeFails) ==
  /\ Running(n)
  /\ \E fails \in (IF inflight[n].pc \in ReadSteps \cup WriteSteps /\ inflight[n].failed = "-"
                     THEN storeFails ELSE {FALSE}) :
       LET r == HandlerStep(World({}), inflight[n], fails, now)
           l == loadUpcoming(r.w, now)
       IN
       /\ Commit(r.w)
       /\ inflight' = [inflight EXCEPT ![n] = r.p]
       /\ IF inflight[n].pc = "load"
            THEN /\ occurrences' = l.occurrences
                 /\ activeReminders' = l.activeReminders
                 /\ lastOp' = [lastOp EXCEPT !.listedAt = now]
            ELSE UNCHANGED <<occurrences, activeReminders, lastOp>>
  /\ UNCHANGED <<now, importOk, stateTasks, ackMap, nextTaskId, ticks>>

\* a handler is called; the previous run in the slot is over
Call(n, op, pc, task, key) ==
  /\ ~Running(n)
  /\ inflight[n].run < MaxRuns
  /\ inflight' = [inflight EXCEPT ![n] =
                    Begin(World({}), op, pc, task, key, inflight[n].run + 1)]
  /\ nextTaskId' = IF task.id > nextTaskId THEN task.id ELSE nextTaskId
  /\ UNCHANGED <<now, importOk, Notifications, notificationsError, tasks, notifications,
                 persistent, acknowledged, scheduled, cancelled, stateTasks,
                 occurrences, activeReminders, ackMap, ticks, lastOp>>

CallToggle(n, row) ==
  Call(n, IF row.currentlyAcked THEN "unack" ELSE "ack",
       IF row.currentlyAcked THEN "u_readA" ELSE "a_getIds",
       [NoTask EXCEPT !.id = row.taskId], row.key)

\* state after the app is installed and opened for the first time
Installed ==
  /\ now = Start
  /\ Notifications = "null"
  /\ notificationsError = FALSE
  /\ tasks = <<>>
  /\ notifications = <<>>
  /\ persistent = <<>>
  /\ acknowledged = <<>>
  /\ scheduled = <<>>
  /\ cancelled = {}
  /\ stateTasks = <<>>
  /\ occurrences = <<>>
  /\ activeReminders = <<>>
  /\ ackMap = [taskId |-> 0, rows |-> {}]
  /\ nextTaskId = 0
  /\ ticks = 0
  /\ lastOp = NoOp
  /\ inflight = [p \in Procs |-> Idle]

\* expo-notifications may or may not be importable on the device
Init == importOk \in BOOLEAN /\ Installed

\* Expo Go: the import fails
InitExpoGo == importOk = FALSE /\ Installed

Next ==
  \/ HookSaveTask
  \/ HookDeleteTask
  \/ LoadUpcoming
  \/ ToggleAck
  \/ Tick

Spec == Init /\ [][Next]_vars

NextDetail ==
  \/ HookSaveDaily
  \/ LoadUpcoming
  \/ ToggleAck
  \/ DetailLoad
  \/ DetailAcknowledge
  \/ Tick

SpecDetail == Init /\ [][NextDetail]_vars

NextRejecting ==
  \/ HookSaveTaskRejected
  \/ HookDeleteTask
  \/ Tick

SpecRejecting == Init /\ [][NextRejecting]_vars

NextQuery ==
  \/ HookSaveCadence
  \/ LoadUpcoming
  \/ TickQuery

SpecQuery == InitExpoGo /\ [][NextQuery]_vars

NextProvider ==
  \/ CtxSaveTask
  \/ CtxDeleteTask
  \/ CtxLoadTasks
  \/ Tick

SpecProvider == Init /\ [][NextProvider]_vars

\* ------------------------------------------------------------------------
\* Vocabulary of the properties
\* ------------------------------------------------------------------------
Handles == 1..Len(scheduled)

HandlesOf(id) == {h \in Handles : scheduled[h].taskId = id}

\* follow-up requests accepted for one occurrence of a task
FollowupsOf(id, key) ==
  {h \in HandlesOf(id) : scheduled[h].role = "followup"
                          /\ toISOString(scheduled[h].occ) = key}

PrimarySetStored(id) == \E i \in 1..Len(notifications) : notifications[i].taskId = id

FollowupSetStored(id) == \E i \in 1..Len(persistent) : persistent[i].taskId = id

FollowupSetStoredFor(id, key) ==
  \E i \in 1..Len(persistent) :
     persistent[i].taskId = id /\ persistent[i].occurrenceKey = key

AckStored(id) == \E i \in 1..Len(acknowledged) : acknowledged[i].taskId = id

AckCount(id, key) ==
  Cardinality({i \in 1..Len(acknowledged) :
                 acknowledged[i].taskId = id /\ acknowledged[i].occurrenceKey = key})

Count(seq, x) == Cardinality({i \in 1..Len(seq) : seq[i] = x})

RowsOf(list, id, t) == {i \in 1..Len(list) : list[i].taskId = id /\ list[i].date = t}

\* the Upcoming screen's lists were read from the present stores at `now`
ListsFresh == lastOp.listedAt = now

\* the last handler run was `name`, directly after a run of `before` on the
\* same occurrence (queries and clock advances in between do not count)
RunAfter(name, before) ==
  lastOp.op = name /\ lastOp.prev = <<before, lastOp.taskId, lastOp.key>>

\* ------------------------------------------------------------------------
\* C1  Deletion cascade
\* ------------------------------------------------------------------------
\* C1: once deleteTask(id) has completed, no primary handle set, no follow-up
\* handle set and no acknowledgment record is stored under id, and every
\* handle ever issued for the task, primary or follow-up, has received a
\* cancel call.
C1_DeletionCascade ==
  lastOp.op = "delete" =>
    /\ ~PrimarySetStored(lastOp.taskId)
    /\ ~FollowupSetStored(lastOp.taskId)
    /\ ~AckStored(lastOp.taskId)
    /\ HandlesOf(lastOp.taskId) \subseteq cancelled

\* ------------------------------------------------------------------------
\* C2  Acknowledgment suppresses follow-ups
\* ------------------------------------------------------------------------
\* C2: in every reachable state, an occurrence with an acknowledgment record
\* has no stored follow-up handle set and no follow-up notification that is
\* armed (accepted, not yet due) and uncancelled.
C2_AckSuppressesFollowups ==
  \A i \in 1..Len(acknowledged) :
    LET a == acknowledged[i] IN
    /\ ~FollowupSetStoredFor(a.taskId, a.occurrenceKey)
    /\ \A h \in FollowupsOf(a.taskId, a.occurrenceKey) :
         h \in cancelled \/ scheduled[h].at <= now

\* ------------------------------------------------------------------------
\* C3  Rule edit cancels all prior handles
\* ------------------------------------------------------------------------
\* C3: when a stored task is saved again, every handle armed for it before
\* the edit and still pending, primary and follow-up alike, has received a
\* cancel call once the edit has run, so that the only live handles of the
\* task are the ones the edit issued.
C3_EditCancelsPriorHandles ==
  (lastOp.op = "save" /\ lastOp.edit) =>
    \A h \in HandlesOf(lastOp.taskId) :
      (h <= lastOp.before /\ scheduled[h].at > lastOp.at) => h \in cancelled

\* ------------------------------------------------------------------------
\* C4  Idempotent acknowledge
\* ------------------------------------------------------------------------
\* C4: when the acknowledge branch runs twice in a row for the same
\* (taskId, occurrenceKey), exactly one acknowledgment record for the pair
\* is stored afterwards and the second run issues no cancel call.
C4_IdempotentAcknowledge ==
  RunAfter("ack", "ack") =>
    /\ AckCount(lastOp.taskId, lastOp.key) = 1
    /\ lastOp.cancelled = {}

\* a second acknowledge of an occurrence whose follow-ups the first one
\* cancelled
C4_Witness ==
  /\ RunAfter("ack", "ack")
  /\ \E h \in FollowupsOf(lastOp.taskId, lastOp.key) : h \in cancelled

\* ------------------------------------------------------------------------
\* C5  Ack/unack round trip
\* ------------------------------------------------------------------------
\* C5: unacknowledge directly after acknowledge of the same occurrence
\* leaves it unacknowledged.  If the occurrence instant plus 6 hours is
\* after the time of the run (and expo-notifications is available), a
\* non-empty follow-up handle set is stored for the occurrence, made of
\* handles this run armed for instants still ahead.  If the occurrence is
\* older than 6 hours, no follow-up handle set is stored and the run armed
\* nothing.
C5_AckUnackRoundTrip ==
  RunAfter("unack", "ack") =>
    LET id == lastOp.taskId
        occ == parseISO(lastOp.key)
        ids == getPersistentSchedule(World({}), id, lastOp.key)
    IN
    /\ ~isOccurrenceAcknowledgedIn(acknowledged, id, lastOp.key)
    /\ (occ + 6 * 60 > lastOp.at /\ importOk) =>
         /\ Len(ids) > 0
         /\ \A k \in 1..Len(ids) :
              /\ ids[k] > lastOp.before
              /\ ids[k] \in FollowupsOf(id, lastOp.key)
              /\ scheduled[ids[k]].at > lastOp.at
    /\ (occ + 6 * 60 < lastOp.at) =>
         /\ ~FollowupSetStoredFor(id, lastOp.key)
         /\ Len(scheduled) = lastOp.before

\* an occurrence already due but less than 6 hours old is unacknowledged
\* after having been acknowledged, and the rest of its burst is armed
C5_Witness ==
  /\ RunAfter("unack", "ack")
  /\ importOk
  /\ parseISO(lastOp.key) < lastOp.at
  /\ parseISO(lastOp.key) + 6 * 60 > lastOp.at
  /\ Len(getPersistentSchedule(World({}), lastOp.taskId, lastOp.key)) > 0

\* ------------------------------------------------------------------------
\* C6  Partial scheduling failure
\* ------------------------------------------------------------------------
\* identity of an occurrence a save arms: the entry of the task it comes from
\* and its instant (0 for a daily entry, whose request carries no instant)
OccurrenceOf(request) == <<request.entry, request.occ>>

\* occurrences scheduleTaskNotifications is to arm for a task at time `at`
ExpectedOccurrences(task, at) ==
  CASE task.scheduleType = "daily" ->
         {<<i, 0>> : i \in 1..Len(task.timesInDay)}
    [] task.scheduleType = "customTimes" ->
         {<<i, parseISO(task.customDateTimes[i])>> :
            i \in {j \in 1..Len(task.customDateTimes) :
                     parseISO(task.customDateTimes[j]) > at}}
    [] task.scheduleType = "alternateDays" ->
         {o \in {<<i, setHours(addDays(task.createdAt, k),
                               task.timesInDay[i][1], task.timesInDay[i][2])>> :
                   i \in 1..Len(task.timesInDay),
                   k \in {x \in 0..horizonDays : x % task.alternateInterval = 0}} :
            o[2] > at}

\* C6: for every schedule type, when the subsystem rejects the arm request
\* of exactly one of the n occurrences of a save, each of the other n-1
\* occurrences is armed exactly once and n-1 handles are returned.
C6_PartialSchedulingFailure ==
  (lastOp.op = "save" /\ Len(lastOp.rejected) = 1
     /\ lastOp.rejected[1].role = "primary") =>
    LET expected == ExpectedOccurrences(StoredTask(lastOp.taskId), lastOp.at)
        failed == OccurrenceOf(lastOp.rejected[1])
        armed(o) == {k \in 1..Len(lastOp.ids) :
                       OccurrenceOf(scheduled[lastOp.ids[k]]) = o}
    IN
    /\ Len(lastOp.ids) = Cardinality(expected) - 1
    /\ \A o \in expected \ {failed} : Cardinality(armed(o)) = 1

\* ------------------------------------------------------------------------
\* C7  Upcoming/Active partition
\* ------------------------------------------------------------------------
\* C7: for every stored task and every instant t that loadUpcoming derives
\* at `now`, t is listed as upcoming iff now <= t <= now + 24h, as active
\* iff now - 6h <= t < now and (taskId, key(t)) is not acknowledged, and in
\* neither list otherwise; no instant is in both lists, an acknowledged past
\* one is in neither, and the lists hold no other rows.
C7_UpcomingActivePartition ==
  ListsFresh =>
    /\ \A n \in 1..Len(tasks) :
         LET derived == derivedInstants(tasks[n], now) IN
         \A j \in 1..Len(derived) :
           LET t == derived[j]
               acked == AckCount(tasks[n].id, toISOString(t)) > 0
               inUpcoming == RowsOf(occurrences, tasks[n].id, t) # {}
               inActive == RowsOf(activeReminders, tasks[n].id, t) # {}
           IN
           /\ inUpcoming <=> (now <= t /\ t <= now + 24 * 60)
           /\ inActive <=> (now - 6 * 60 <= t /\ t < now /\ ~acked)
           /\ ~(inUpcoming /\ inActive)
    /\ \A r \in Range(occurrences) \cup Range(activeReminders) :
         \E n \in 1..Len(tasks) :
            /\ tasks[n].id = r.taskId
            /\ r.date \in Range(derivedInstants(tasks[n], now))
            /\ r.key = toISOString(r.date)

\* the lists were just read; an acknowledged occurrence less than 6 hours
\* old is in neither of them while a later one is listed as upcoming
C7_Witness ==
  /\ ListsFresh
  /\ Len(occurrences) > 0
  /\ \E n \in 1..Len(tasks) :
       \E t \in Range(derivedInstants(tasks[n], now)) :
          /\ now - 6 * 60 <= t /\ t < now
          /\ AckCount(tasks[n].id, toISOString(t)) > 0
          /\ RowsOf(occurrences, tasks[n].id, t) = {}
          /\ RowsOf(activeReminders, tasks[n].id, t) = {}

\* ------------------------------------------------------------------------
\* C8  Daily rules fire at the listed times
\* ------------------------------------------------------------------------
\* the first instant after `at` whose local time of day is `time`
NextInstantAt(time, at) ==
  LET today == setHours(at, time[1], time[2]) IN
  IF today > at THEN today ELSE today + DayMinutes

\* C8: for a daily task and every entry T of timesInDay, the primary
\* notification a save arms is due at the next instant whose local time of
\* day is T and repeats daily, whatever the time of day of the save.
C8_DailyFiresAtListedTimes ==
  (lastOp.op = "save" /\ StoredTask(lastOp.taskId).scheduleType = "daily") =>
    \A k \in 1..Len(lastOp.ids) :
      LET request == scheduled[lastOp.ids[k]]
          T == StoredTask(lastOp.taskId).timesInDay[request.entry]
      IN request.at = NextInstantAt(T, lastOp.at) /\ request.repeats

\* ------------------------------------------------------------------------
\* C9  EveryNDays cadence
\* ------------------------------------------------------------------------
\* number of the local calendar day of an instant
LocalDay(t) == (t + TzOffset) \div DayMinutes

\* the anchor day: startDate, or createdAt when there is none
AnchorDay(task) ==
  LocalDay(IF task.startDate # 0 THEN task.startDate ELSE task.createdAt)

\* the day of t is a whole multiple of the interval away from the anchor day
OnCadence(task, t) ==
  (LocalDay(t) - AnchorDay(task)) % task.alternateInterval = 0

\* the instant of time-of-day entry i on the local day d days from today
InstantOn(task, d, i) ==
  (LocalDay(now) + d) * DayMinutes - TzOffset
    + task.timesInDay[i][1] * 60 + task.timesInDay[i][2]

\* C9: for an alternateDays task with interval N and anchor day D, every
\* occurrence the Upcoming query derives lies on a day d with d - D divisible
\* by N; every such day among the days the query looks at (yesterday to the
\* day after tomorrow, which cover its window) yields one occurrence per
\* time of day, days before the anchor included; and what the query lists
\* as upcoming for the task is exactly the derived instants within 24 hours.
C9_EveryNDaysCadence ==
  \A n \in 1..Len(tasks) :
    tasks[n].scheduleType = "alternateDays" =>
      LET task == tasks[n]
          derived == derivedInstants(task, now)
      IN
      /\ \A j \in 1..Len(derived) : OnCadence(task, derived[j])
      /\ \A d \in -1..2 : \A i \in 1..Len(task.timesInDay) :
           Count(derived, InstantOn(task, d, i)) =
             IF OnCadence(task, InstantOn(task, d, i))
               THEN Count(task.timesInDay, task.timesInDay[i])
               ELSE 0
      /\ ListsFresh =>
           /\ \A r \in Range(occurrences) \cup Range(activeReminders) :
                r.taskId = task.id => OnCadence(task, r.date)
           /\ \A d \in -1..2 : \A i \in 1..Len(task.timesInDay) :
                LET t == InstantOn(task, d, i) IN
                (OnCadence(task, t) /\ now <= t /\ t <= now + 24 * 60) =>
                  Cardinality(RowsOf(occurrences, task.id, t)) =
                    Count(task.timesInDay, task.timesInDay[i])

\* the lists were just read and show an occurrence on a day before the
\* anchor, while another day the query looked at is off the cadence
C9_Witness ==
  /\ ListsFresh
  /\ \E n \in 1..Len(tasks) :
       /\ tasks[n].scheduleType = "alternateDays"
       /\ \E r \in Range(occurrences) :
            r.taskId = tasks[n].id /\ LocalDay(r.date) < AnchorDay(tasks[n])
       /\ \E d \in -1..2 : ~OnCadence(tasks[n], InstantOn(tasks[n], d, 1))

\* ------------------------------------------------------------------------
\* C10  CustomInstants exactness
\* ------------------------------------------------------------------------
\* stored instants of a customTimes task with explicit date-times
StoredInstants(task) ==
  [i \in 1..Len(task.customDateTimes) |-> parseISO(task.customDateTimes[i])]

IsCustom(task) == task.scheduleType = "customTimes" /\ Len(task.customDateTimes) > 0

\* every row listed for the task is one of its stored instants
OnlyStoredListed(task) ==
  \A r \in Range(occurrences) \cup Range(activeReminders) :
    r.taskId = task.id => r.date \in Range(StoredInstants(task))

\* a save of a customTimes task arms one primary date notification for each
\* stored instant after the time of the save, and for no other
C10_ArmsFutureInstants ==
  (lastOp.op = "save" /\ importOk /\ IsCustom(StoredTask(lastOp.taskId))) =>
    LET after(t) == t > lastOp.at
        future == SelectSeq(StoredInstants(StoredTask(lastOp.taskId)), after)
    IN
    /\ Len(lastOp.ids) = Len(future)
    /\ \A k \in 1..Len(future) :
         /\ scheduled[lastOp.ids[k]].role = "primary"
         /\ scheduled[lastOp.ids[k]].trigger = "date"
         /\ scheduled[lastOp.ids[k]].at = future[k]

\* C10 (as claimed): for a customTimes task the Upcoming query returns
\* exactly the stored instants that lie in its window [now - 6h, now + 24h]:
\* one inside is returned once, one outside is not returned, nothing that
\* is not stored is returned; and a save arms a primary notification for
\* exactly the stored instants after now.
C10_CustomInstantsExactness ==
  /\ ListsFresh =>
       \A n \in 1..Len(tasks) : IsCustom(tasks[n]) =>
         /\ OnlyStoredListed(tasks[n])
         /\ \A i \in 1..Len(tasks[n].customDateTimes) :
              LET t == StoredInstants(tasks[n])[i] IN
              Cardinality(RowsOf(occurrences, tasks[n].id, t))
                + Cardinality(RowsOf(activeReminders, tasks[n].id, t))
              = IF now - 6 * 60 <= t /\ t <= now + 24 * 60
                  THEN Count(StoredInstants(tasks[n]), t) ELSE 0
  /\ C10_ArmsFutureInstants

\* C10 (amended): for a customTimes task the Upcoming query returns exactly
\* the stored instants in [now, now + 24h] (as upcoming) together with those
\* in [now - 6h, now) that are not acknowledged (as active), each once per
\* stored entry, and nothing else; and a save arms a primary notification
\* for exactly the stored instants after now.
C10_CustomInstantsAmended ==
  /\ ListsFresh =>
       \A n \in 1..Len(tasks) : IsCustom(tasks[n]) =>
         /\ OnlyStoredListed(tasks[n])
         /\ \A i \in 1..Len(tasks[n].customDateTimes) :
              LET t == StoredInstants(tasks[n])[i]
                  acked == AckCount(tasks[n].id, tasks[n].customDateTimes[i]) > 0
                  stored == Count(StoredInstants(tasks[n]), t)
              IN
              /\ Cardinality(RowsOf(occurrences, tasks[n].id, t)) =
                   IF now <= t /\ t <= now + 24 * 60 THEN stored ELSE 0
              /\ Cardinality(RowsOf(activeReminders, tasks[n].id, t)) =
                   IF now - 6 * 60 <= t /\ t < now /\ ~acked THEN stored ELSE 0
  /\ C10_ArmsFutureInstants

\* the lists were just read for a customTimes task whose save armed both
\* instants: one instant is past, acknowledged and not returned, the other
\* lies beyond the window and is not returned either
C10_Witness ==
  /\ ListsFresh
  /\ \E n \in 1..Len(tasks) :
       /\ IsCustom(tasks[n])
       /\ \E h \in HandlesOf(tasks[n].id) : scheduled[h].role = "primary"
       /\ \E i, j \in 1..Len(tasks[n].customDateTimes) :
            LET t == StoredInstants(tasks[n])[i]
                u == StoredInstants(tasks[n])[j]
            IN
            /\ now - 6 * 60 <= t /\ t < now
            /\ AckCount(tasks[n].id, tasks[n].customDateTimes[i]) > 0
            /\ RowsOf(activeReminders, tasks[n].id, t) = {}
            /\ u > now + 24 * 60
            /\ RowsOf(occurrences, tasks[n].id, u) = {}

\* ------------------------------------------------------------------------
\* C11  Daily expansion
\* ------------------------------------------------------------------------
\* forms of SpecDaily: daily tasks with one or two times of day, in the
\* order the user entered them (the form does not sort them)
DailyTimesForms(current) ==
  { DailyForm(<< <<9, 0>>, <<21, 0>> >>),
    DailyForm(<< <<21, 0>>, <<9, 0>> >>),
    DailyForm(<< <<7, 0>>, <<9, 0>> >>),
    DailyForm(<< <<9, 0>> >>) }

HookSaveDailyTimes ==
  /\ Len(scheduled) < MaxArmed
  /\ \E task \in SaveInputs(DailyTimesForms(now)), f \in NoReject : Submit(task, f)

NextDaily ==
  \/ HookSaveDailyTimes
  \/ LoadUpcoming
  \/ TickQuery

SpecDaily == Init /\ [][NextDaily]_vars

\* the rows of a list are in ascending order of their instants
Ascending(list) ==
  \A a, b \in 1..Len(list) : a < b => list[a].date <= list[b].date

AcceptedPrimaries ==
  {h \in Handles : h > lastOp.before /\ scheduled[h].role = "primary"}

\* C12: whatever arm requests the subsystem rejects during a save (one, all
\* of them, or the subsystem being unavailable), scheduleTaskNotifications
\* returns to its caller the handles of the primary requests that succeeded,
\* each once, the empty list when none succeeded; the caller goes on to
\* store the task and that list.
C12_FailuresAbsorbed ==
  lastOp.op = "save" =>
    /\ Range(lastOp.ids) = AcceptedPrimaries
    /\ Len(lastOp.ids) = Cardinality(AcceptedPrimaries)
    /\ lastOp.taskId \in StoredIds
    /\ PrimarySetStored(lastOp.taskId)
    /\ getNotificationSchedule(World({}), lastOp.taskId) = lastOp.ids

\* a save in which one request was rejected and another primary was armed
C12_Witness ==
  /\ lastOp.op = "save"
  /\ Len(lastOp.rejected) > 0
  /\ Len(lastOp.ids) > 0
  /\ getNotificationSchedule(World({}), lastOp.taskId) = lastOp.ids

\* ------------------------------------------------------------------------
\* SpecSteps: one handler at a time, run step by step; a store access of
\* the run may fail, the Upcoming query may run between two steps, and the
\* app may be terminated between two steps
\* ------------------------------------------------------------------------
\* forms of SpecSteps: daily tasks with one or two times
StepForms(current) ==
  { DailyForm(<< <<9, 0>> >>), DailyForm(<< <<9, 0>>, <<21, 0>> >>) }

\* a store access works, or fails (at most one failure per run)
MayFail == BOOLEAN
NeverFails == {FALSE}

StepsSave ==
  /\ Len(scheduled) < MaxArmed
  /\ \E task \in SaveInputs(StepForms(now)) : Call(1, "save", "s_getOld", task, <<>>)

StepsDelete ==
  \E id \in StoredIds : Call(1, "delete", "d_getIds", [NoTask EXCEPT !.id = id], <<>>)

StepsToggle ==
  \E row \in ToggleRows :
    /\ row.currentlyAcked => Len(scheduled) < MaxArmed
    /\ CallToggle(1, row)

StepsRun ==
  /\ Running(1)
  /\ Step(1, MayFail)

\* faulty variant of QueryStep: the query writes the acknowledgment store,
\* emptying it
QueryStep_resetsAcks ==
  /\ LET l == loadUpcoming(World({}), now) IN
       /\ occurrences' = l.occurrences
       /\ activeReminders' = l.activeReminders
  /\ acknowledged' = <<>>
  /\ lastOp' = [lastOp EXCEPT !.listedAt = now]
  /\ inflight' = [n \in Procs |->
                    IF Running(n) THEN [inflight[n] EXCEPT !.queried = TRUE]
                                  ELSE inflight[n]]
  /\ UNCHANGED <<now, importOk, Notifications, notificationsError, tasks, notifications,
                 persistent, scheduled, cancelled, stateTasks, ackMap,
                 nextTaskId, ticks>>

\* loadUpcoming called while a handler may be between two of its steps
QueryStep ==
  /\ LET l == loadUpcoming(World({}), now) IN
       /\ occurrences' = l.occurrences
       /\ activeReminders' = l.activeReminders
  /\ lastOp' = [lastOp EXCEPT !.listedAt = now]
  /\ inflight' = [n \in Procs |->
                    IF Running(n) THEN [inflight[n] EXCEPT !.queried = TRUE]
                                  ELSE inflight[n]]
  /\ UNCHANGED <<now, importOk, Notifications, notificationsError, tasks, notifications,
                 persistent, acknowledged, scheduled, cancelled, stateTasks, ackMap,
                 nextTaskId, ticks>>

\* the app is terminated while a handler is between two steps and opened
\* again: the stores and the armed notifications stay, the rest is new
Terminate ==
  /\ \E n \in Procs : Running(n)
  /\ inflight' = [n \in Procs |->
                    IF Running(n) THEN [inflight[n] EXCEPT !.status = "killed"]
                                  ELSE inflight[n]]
  /\ Notifications' = "null"
  /\ notificationsError' = FALSE
  /\ occurrences' = <<>>
  /\ activeReminders' = <<>>
  /\ ackMap' = [taskId |-> 0, rows |-> {}]
  /\ stateTasks' = <<>>
  /\ lastOp' = [lastOp EXCEPT !.listedAt = 0]
  /\ UNCHANGED <<now, importOk, tasks, notifications, persistent, acknowledged,
                 scheduled, cancelled, nextTaskId, ticks>>

NextSteps ==
  \/ StepsSave
  \/ StepsDelete
  \/ StepsToggle
  \/ StepsRun
  \/ QueryStep
  \/ Terminate

SpecSteps == Init /\ [][NextSteps]_vars

\* ------------------------------------------------------------------------
\* C13  Persistence failures are visible
\* ------------------------------------------------------------------------
Over(p) == p.status \in {"done", "threw"}

\* C13: whenever a store read or write fails during a save, a delete or an
\* acknowledge toggle, the run ends by throwing: no run in which a store
\* access failed returns normally.
C13_PersistenceFailuresVisible ==
  \A n \in Procs : inflight[n].status = "done" => inflight[n].failed = "-"

\* ------------------------------------------------------------------------
\* C14  No partially saved rule
\* ------------------------------------------------------------------------
\* the world a run started from
StartOf(p) == p.start[1]

\* handles recorded in a stored handle set of the task
RecordedHandles(id) ==
  Range(getNotificationSchedule(World({}), id))
    \cup UNION {Range(persistent[i].notificationIds) :
                  i \in {j \in 1..Len(persistent) : persistent[j].taskId = id}}

\* C14: once a save has ended, normally or by throwing at one of its store
\* writes, the stored task and the stored primary handle set are either
\* both those of the new version or both not; and when it threw, every
\* notification it armed that is still live is recorded in a stored handle
\* set of the task.  (Stated for saves whose new version differs from what
\* was stored when they started.)
C14_NoPartiallySavedRule ==
  \A n \in Procs :
    LET p == inflight[n]
        id == p.task.id
        w0 == StartOf(p)
        newSet == [taskId |-> id, notificationIds |-> p.newIds]
        taskNew == p.task \in Range(tasks)
        setNew == newSet \in Range(notifications)
    IN
    (p.op = "save" /\ Over(p)
       /\ p.task \notin Range(w0.tasks) /\ newSet \notin Range(w0.notifications)) =>
      /\ taskNew <=> setNew
      /\ p.status = "threw" =>
           \A h \in HandlesOf(id) :
             (h > p.before /\ h \notin cancelled) => h \in RecordedHandles(id)

\* ------------------------------------------------------------------------
\* SpecPair: two handlers called one right after the other for two
\* different tasks; both are in flight and their steps interleave.  No
\* store access fails.
\* ------------------------------------------------------------------------
\* ids of the two tasks
Rules == {1, 2}

\* before the pair: a task is saved for the first time, with nothing else
\* in flight
PairSetup ==
  /\ \A n \in Procs : inflight[n].run = 0
  /\ \E id \in Rules \ StoredIds :
       Submit(BuildTask(DailyForm(<< <<9, 0>> >>), id, now), {})

\* the Upcoming screen is opened before the pair
PairLoad ==
  /\ \A n \in Procs : inflight[n].run = 0
  /\ LoadUpcoming

\* the form saved by a call of the pair: a daily task at 21:00
PairForms == { DailyForm(<< <<21, 0>> >>) }

\* the calls a user can make: save a task (new or stored), delete a stored
\* task, toggle a listed row
PairCalls ==
  { [op |-> "save", pc |-> "s_getOld", key |-> <<>>,
     task |-> BuildTask(form, id, IF id \in StoredIds THEN StoredTask(id).createdAt ELSE now)]
      : form \in PairForms, id \in Rules }
  \cup
  { [op |-> "delete", pc |-> "d_getIds", key |-> <<>>, task |-> [NoTask EXCEPT !.id = id]]
      : id \in StoredIds }
  \cup
  { [op |-> IF row.currentlyAcked THEN "unack" ELSE "ack",
     pc |-> IF row.currentlyAcked THEN "u_readA" ELSE "a_getIds",
     key |-> row.key, task |-> [NoTask EXCEPT !.id = row.taskId]]
      : row \in ToggleRows }

\* two handlers are called for two different tasks before either has
\* taken a step
PairStart ==
  /\ \A n \in Procs : inflight[n].run = 0
  /\ \E a \in PairCalls, b \in PairCalls :
       /\ a.task.id # b.task.id
       /\ inflight' = [n \in Procs |->
                         LET c == IF n = 1 THEN a ELSE b IN
                         Begin(World({}), c.op, c.pc, c.task, c.key, 1)]
  /\ UNCHANGED <<now, importOk, Notifications, notificationsError, tasks, notifications,
                 persistent, acknowledged, scheduled, cancelled, stateTasks,
                 occurrences, activeReminders, ackMap, nextTaskId, ticks, lastOp>>

\* either of the two resumes
PairRun ==
  /\ ~NoneRunning
  /\ \E n \in Procs : Step(n, NeverFails)

NextPair ==
  \/ PairSetup
  \/ PairLoad
  \/ PairStart
  \/ PairRun

SpecPair == Init /\ [][NextPair]_vars

\* ------------------------------------------------------------------------
\* C15  Operations on different rules need no locking
\* ------------------------------------------------------------------------
\* the whole handler of a run, applied at once to a world
Atomic(w, p) ==
  LET fresh == [w EXCEPT !.req = 0, !.opCancelled = {}, !.rejected = <<>>] IN
  CASE p.op = "save" -> useTaskStorage_saveTask(fresh, p.task, now).w
    [] p.op = "delete" -> useTaskStorage_deleteTask(fresh, p.task.id)
    [] p.op = "ack" -> handleToggle(fresh, p.task.id, p.key, FALSE, now)
    [] p.op = "unack" -> handleToggle(fresh, p.task.id, p.key, TRUE, now)

\* contents of the four collections, each handle replaced by the request
\* it stands for
Contents(w) ==
  LET requests(ids) == [i \in 1..Len(ids) |-> w.scheduled[ids[i]]] IN
  [tasks |-> Range(w.tasks),
   notifications |->
     {[taskId |-> w.notifications[i].taskId,
       requests |-> requests(w.notifications[i].notificationIds)]
        : i \in 1..Len(w.notifications)},
   persistent |->
     {[taskId |-> w.persistent[i].taskId, occurrenceKey |-> w.persistent[i].occurrenceKey,
       requests |-> requests(w.persistent[i].notificationIds)]
        : i \in 1..Len(w.persistent)},
   acknowledged |-> Range(w.acknowledged)]

BothDone == \A n \in Procs : inflight[n].status = "done"

\* C15: when two operations on two different tasks were in flight together
\* and both have returned, the contents of the task, primary handle,
\* follow-up handle and acknowledgment collections are those that one of
\* the two serial executions of the operations gives from the same start.
C15_SerialOutcome ==
  BothDone =>
    LET w0 == StartOf(inflight[1])
        a == inflight[1]
        b == inflight[2]
    IN Contents(World({})) \in { Contents(Atomic(Atomic(w0, a), b)),
                                 Contents(Atomic(Atomic(w0, b), a)) }

\* ------------------------------------------------------------------------
\* C16  The Upcoming/Active query is read-only
\* ------------------------------------------------------------------------
\* the stores, the armed and cancelled notifications and the module state
Effects(w) ==
  <<w.tasks, w.notifications, w.persistent, w.acknowledged, w.scheduled, w.cancelled,
    w.Notifications, w.notificationsError>>

\* a run that returned with no failed store access left what the whole
\* handler gives from the state the run started in
OutcomeUnaffected ==
  \A n \in Procs :
    (inflight[n].status = "done" /\ inflight[n].failed = "-") =>
      Effects(World({})) = Effects(Atomic(StartOf(inflight[n]), inflight[n]))

\* C16: a step of loadUpcoming leaves the task collection, both handle
\* stores and the acknowledgment store unchanged and arms and cancels
\* nothing; and a save or toggle between whose steps the query ran, any
\* number of times, ends in the state it ends in when run alone.
C16_QueryReadOnly ==
  /\ [][QueryStep => UNCHANGED <<tasks, notifications, persistent, acknowledged,
                                 scheduled, cancelled>>]_vars
  /\ []OutcomeUnaffected

\* a save or an acknowledge has returned and the query ran between its steps
C16_Witness ==
  \E n \in Procs :
    /\ inflight[n].status = "done"
    /\ inflight[n].failed = "-"
    /\ inflight[n].queried
    /\ inflight[n].op \in {"save", "ack"}
    /\ Len(acknowledged) + Len(StartOf(inflight[n]).acknowledged) > 0

\* ------------------------------------------------------------------------
\* SpecAnchor: alternateDays tasks whose start date is the day of the save
\* or the day after
\* ------------------------------------------------------------------------
\* forms of SpecAnchor: the start date picked is today or tomorrow
AnchorForms(current) ==
  { AlternateForm(<< <<9, 0>> >>, 183, addDays(current, k)) : k \in {0, 1} }

HookSaveAnchor ==
  /\ Len(scheduled) < 2 * MaxArmed
  /\ \E task \in SaveInputs(AnchorForms(now)), f \in NoReject : Submit(task, f)

NextAnchor ==
  \/ HookSaveAnchor
  \/ HookDeleteTask
  \/ LoadUpcoming
  \/ TickQuery

SpecAnchor == Init /\ [][NextAnchor]_vars

\* ------------------------------------------------------------------------
\* C17  Anchor resolution in the scheduler
\* ------------------------------------------------------------------------
\* the primary requests recorded for a stored task
StoredPrimaries(id) ==
  LET ids == getNotificationSchedule(World({}), id) IN
  {scheduled[ids[i]] : i \in 1..Len(ids)}

\* C17: every instant armed as a primary notification of a stored
\* alternateDays task lies on the cadence counted from the task's start
\* date (its creation date when it has none): the Upcoming query, asked at
\* that instant, derives it for the task.
C17_AnchorResolution ==
  \A id \in StoredIds :
    StoredTask(id).scheduleType = "alternateDays" =>
      \A r \in StoredPrimaries(id) :
        r.at \in Range(derivedInstants(StoredTask(id), r.at))

\* ------------------------------------------------------------------------
\* C18  Acknowledge ordering
\* ------------------------------------------------------------------------
\* follow-up handles stored for an occurrence that are still armed
ArmedFollowups(taskId, key) ==
  {h \in Range(getPersistentSchedule(World({}), taskId, key)) : h \notin cancelled}

\* C18: from the call of an acknowledge of an occurrence that was not
\* acknowledged, through each of its steps and however it ends (returned,
\* thrown, app terminated), the occurrence is never acknowledged while
\* follow-up handles are still stored for it and armed.
C18_AcknowledgeOrdering ==
  \A n \in Procs :
    LET p == inflight[n] IN
    (p.op = "ack"
       /\ ~isOccurrenceAcknowledged(StartOf(p), p.task.id, p.key)) =>
      ~(/\ isOccurrenceAcknowledged(World({}), p.task.id, p.key)
        /\ ArmedFollowups(p.task.id, p.key) # {})

\* ------------------------------------------------------------------------
\* C19  Deletion ordering
\* ------------------------------------------------------------------------
\* C19: at every step of a delete and after it, a primary handle-set
\* record that was stored when the delete was called and is no longer
\* stored lists only handles for which a cancel call has been made.
C19_DeletionOrdering ==
  \A n \in Procs :
    LET p == inflight[n]
        before == StartOf(p).notifications
    IN
    p.op = "delete" =>
      \A i \in 1..Len(before) :
        (\A j \in 1..Len(notifications) : notifications[j].taskId # before[i].taskId) =>
          Range(before[i].notificationIds) \subseteq cancelled

\* ------------------------------------------------------------------------
\* C20  No arm request for a past instant
\* ------------------------------------------------------------------------
\* the requests the last handler issued: the accepted and the rejected
IssuedByLastOp ==
  {scheduled[h] : h \in (lastOp.before + 1)..Len(scheduled)} \cup Range(lastOp.rejected)

BurstOccurrences == {r.occ : r \in {x \in IssuedByLastOp : x.role = "followup"}}

\* C21: a save arms follow-ups for an occurrence exactly when the
\* occurrence is within followupMinutes (6 hours) of the time of the save:
\* no burst is armed for an occurrence further ahead, and every occurrence
\* armed with a date trigger inside the 6 hours has its burst.
C21_BurstsWithinHorizon ==
  lastOp.op = "save" =>
    /\ \A occ \in BurstOccurrences : occ <= lastOp.at + followupMinutes
    /\ \A r \in IssuedByLastOp :
         (r.role = "primary" /\ r.trigger = "date" /\ r.at <= lastOp.at + followupMinutes)
           => r.at \in BurstOccurrences

\* ------------------------------------------------------------------------
\* SpecHorizon: an alternateDays task created with the default start date
\* (today) and saved again on later days with the start date untouched
\* ------------------------------------------------------------------------
\* the form of SpecHorizon: on an edit the start date shown is the stored one
HorizonInputs ==
  { BuildTask(AlternateForm(<< <<9, 0>> >>, 183,
                            IF id \in StoredIds THEN StoredTask(id).startDate ELSE now),
              id, IF id \in StoredIds THEN StoredTask(id).createdAt ELSE now)
    : id \in StoredIds \cup (IF nextTaskId < MaxTasks THEN {nextTaskId + 1} ELSE {}) }

HookSaveHorizon ==
  /\ Len(scheduled) < 2 * MaxArmed
  /\ \E task \in HorizonInputs, f \in NoReject : Submit(task, f)

NextHorizon ==
  \/ HookSaveHorizon
  \/ HookDeleteTask
  \/ LoadUpcoming
  \/ TickQuery

SpecHorizon == Init /\ [][NextHorizon]_vars

\* ------------------------------------------------------------------------
\* C22  365-day scheduling horizon
\* ------------------------------------------------------------------------
\* the occurrences of an alternateDays task in (from, from + horizonDays
\* days]: the task's times on the days of its cadence
OccurrencesAhead(task, from) ==
  { occ \in { setHours(addDays(from, d), task.timesInDay[i][1], task.timesInDay[i][2])
                : d \in 0..(horizonDays + 1), i \in 1..Len(task.timesInDay) } :
      /\ occ > from
      /\ occ <= from + horizonDays * DayMinutes
      /\ cadenceKeeps(task, occ) }

\* C22: after a save of an alternateDays task with the subsystem available,
\* at creation or at a later edit, every occurrence of the task in the 365
\* days after the save has a primary notification armed by that save.
C22_SchedulingHorizon ==
  (lastOp.op = "save" /\ Notifications = "loaded" /\ lastOp.taskId \in StoredIds
     /\ StoredTask(lastOp.taskId).scheduleType = "alternateDays") =>
    \A occ \in OccurrencesAhead(StoredTask(lastOp.taskId), lastOp.at) :
      \E r \in IssuedByLastOp : r.role = "primary" /\ r.at = occ

\* ------------------------------------------------------------------------
\* C23  The card count mirrors the Upcoming list
\* ------------------------------------------------------------------------
\* rows of a task in the upcoming bucket of loadUpcoming, run now
UpcomingRowsOf(id) ==
  LET rows == loadUpcoming(World({}), now).occurrences IN
  {i \in 1..Len(rows) : rows[i].taskId = id}

\* C23: for every stored task and every time, getUpcomingCountForTask gives
\* the number of rows loadUpcoming puts in its upcoming bucket for the task.
C23_CountMirrorsList ==
  \A id \in StoredIds :
    getUpcomingCountForTask(StoredTask(id), now) = Cardinality(UpcomingRowsOf(id))

\* ------------------------------------------------------------------------
\* SpecCancel: daily tasks with two times saved, edited and deleted while
\* the subsystem rejects some of the cancel calls of a delete
\* ------------------------------------------------------------------------
NextCancel ==
  \/ HookSaveDailyTimes
  \/ HookDeleteCancelFailing
  \/ Tick

SpecCancel == Init /\ [][NextCancel]_vars

\* ------------------------------------------------------------------------
\* C24  Best-effort cancel
\* ------------------------------------------------------------------------
\* C24: a delete or an edit makes one cancel call for every handle of the
\* stored primary handle set it passes to cancelTaskNotifications, in the
\* order of the list, whichever of the calls fail; and the handler goes on
\* to its end: after a delete the task and its handle-set record are gone,
\* after an edit the new task is stored.
C24_BestEffortCancel ==
  [][ (lastOp' # lastOp /\ lastOp'.op \in {"save", "delete"}) =>
        /\ lastOp'.cancelCalls = getNotificationSchedule(World({}), lastOp'.taskId)
        /\ lastOp'.op = "delete" =>
             /\ \A i \in 1..Len(tasks') : tasks'[i].id # lastOp'.taskId
             /\ \A i \in 1..Len(notifications') :
                  notifications'[i].taskId # lastOp'.taskId
        /\ lastOp'.op = "save" =>
             \E i \in 1..Len(tasks') : tasks'[i].id = lastOp'.taskId ]_vars

\* a delete in which the first cancel call failed and the second was made
C24_Witness ==
  /\ lastOp.op = "delete"
  /\ Len(lastOp.cancelCalls) = 2
  /\ lastOp.cancelCalls[1] \in lastOp.cancelFailed
  /\ lastOp.cancelCalls[2] \in cancelled

\* ------------------------------------------------------------------------
\* SpecEdit: tasks saved and edited through the provider, with occurrences
\* acknowledged in between
\* ------------------------------------------------------------------------
NextEdit ==
  \/ CtxSaveTask
  \/ CtxLoadTasks
  \/ LoadUpcoming
  \/ ToggleAck
  \/ Tick

SpecEdit == Init /\ [][NextEdit]_vars

\* ------------------------------------------------------------------------
\* C25  Edit keeps acknowledgments
\* ------------------------------------------------------------------------
\* C25: a save of a task that is already stored, whatever it changes,
\* leaves the acknowledgment store as it was.
C25_EditKeepsAcknowledgments ==
  [][ (lastOp' # lastOp /\ lastOp'.op = "save" /\ lastOp'.edit) =>
        acknowledged' = acknowledged ]_vars

\* a task with an acknowledged occurrence was saved again with another
\* schedule type
C25_Witness ==
  /\ lastOp.op = "save"
  /\ lastOp.edit
  /\ \E i \in 1..Len(acknowledged) :
       /\ acknowledged[i].taskId = lastOp.taskId
       /\ parseISO(acknowledged[i].occurrenceKey)
            \notin Range(derivedInstants(StoredTask(lastOp.taskId), now))

\* ------------------------------------------------------------------------
\* SpecDuplicate: tasks whose timesInDay lists the same time twice (the
\* form validates each time on its own and accepts that)
\* ------------------------------------------------------------------------
DuplicateForms(current) ==
  { DailyForm(<< <<9, 0>>, <<9, 0>> >>),
    AlternateForm(<< <<9, 0>>, <<9, 0>> >>, 183, current) }

HookSaveDuplicate ==
  /\ Len(scheduled) < MaxArmed
  /\ \E task \in SaveInputs(DuplicateForms(now)), f \in NoReject : Submit(task, f)

NextDuplicate ==
  \/ HookSaveDuplicate
  \/ HookDeleteTask
  \/ LoadUpcoming
  \/ ToggleAck
  \/ Tick

SpecDuplicate == Init /\ [][NextDuplicate]_vars

\* ------------------------------------------------------------------------
\* C26  Duplicate times keep independent handles
\* ------------------------------------------------------------------------
\* handles armed by the last handler
ArmedByLastOp == (lastOp.before + 1)..Len(scheduled)

\* C26: after a save of a task that lists the same time twice, there is one
\* primary notification per entry, and every handle the save armed, primary
\* or follow-up, of either entry, is listed in a stored handle set of the
\* task.
C26_DuplicateTimesKeepHandles ==
  (lastOp.op = "save" /\ Notifications = "loaded" /\ lastOp.taskId \in StoredIds) =>
    LET task == StoredTask(lastOp.taskId) IN
    (Len(task.timesInDay) = 2 /\ task.timesInDay[1] = task.timesInDay[2]) =>
      /\ \A e \in 1..2 :
           \E h \in ArmedByLastOp :
             scheduled[h].role = "primary" /\ scheduled[h].entry = e
      /\ \A h \in ArmedByLastOp : h \in RecordedHandles(lastOp.taskId)

\* ------------------------------------------------------------------------
\* C27  No orphaned handles
\* ------------------------------------------------------------------------
\* the stored handle set a handle belongs in: the primary set of its task,
\* or the follow-up set of its task and occurrence
HomeSet(h) ==
  IF scheduled[h].role = "primary"
    THEN Range(getNotificationSchedule(World({}), scheduled[h].taskId))
    ELSE Range(getPersistentSchedule(World({}), scheduled[h].taskId,
                                     toISOString(scheduled[h].occ)))

\* C27: after any sequence of saves, edits, acknowledges and
\* unacknowledges, each run to its end with no failure, every armed handle
\* for which no cancel call was made is listed in its stored handle set.
C27_NoOrphanedHandles ==
  \A h \in Handles : h \notin cancelled => h \in HomeSet(h)

\* ------------------------------------------------------------------------
\* SpecReopen: saves through the provider, with the app closed and opened
\* again in between
\* ------------------------------------------------------------------------
NextReopen ==
  \/ CtxSaveTask
  \/ CtxLoadTasks
  \/ Reopen
  \/ Tick

SpecReopen == Init /\ [][NextReopen]_vars

\* ------------------------------------------------------------------------
\* C28  The edit path does not depend on the in-memory list
\* ------------------------------------------------------------------------
\* C28: a save through useTaskActions().saveTask of a task that has a
\* stored primary handle set makes a cancel call for every handle of that
\* set, whether or not the provider's task list holds the task.
C28_EditCancelsStoredHandles ==
  [][ (lastOp' # lastOp /\ lastOp'.op = "save") =>
        Range(getNotificationSchedule(World({}), lastOp'.taskId)) \subseteq cancelled'
    ]_vars

\* ------------------------------------------------------------------------
\* C29  Follow-up bursts start after the primary
\* ------------------------------------------------------------------------
\* the instants occ + 5 min, occ + 10 min, ..., occ + 6 h that are after at
BurstAfter(occ, at) ==
  { occ + m : m \in {k \in step..followupMinutes : k % step = 0 /\ occ + k > at} }

\* C29: the follow-ups a save or an unacknowledge arms for an occurrence
\* are the still-future instants among occ + 5 min, ..., occ + 6 h, on
\* every path; the instant of the occurrence itself is not among them.
C29_BurstStartsAfterPrimary ==
  \A occ \in {r.occ : r \in {x \in IssuedByLastOp : x.role = "followup"}} :
    {r.at : r \in {x \in IssuedByLastOp : x.role = "followup" /\ x.occ = occ}}
      = BurstAfter(occ, lastOp.at)

\* ------------------------------------------------------------------------
\* C30  Scheduling terminates with bounded work
\* ------------------------------------------------------------------------
\* alternateInterval values a Task object handed to the provider may carry
IntervalValues == {-3, 0, 2, 183}

\* the task object without the alternateInterval field
WithoutInterval(task) == [f \in DOMAIN task \ {"alternateInterval"} |-> task[f]]

\* alternateDays tasks at 09:00 with every interval value, and without one
IntervalInputs ==
  LET built(n) ==
        SaveInputs({AlternateForm(<< <<9, 0>> >>, n, now)})
  IN UNION {built(n) : n \in IntervalValues}
       \cup {WithoutInterval(t) : t \in built(2)}

\* useTaskActions().saveTask(task) with a task object of IntervalInputs
CtxSaveInterval ==
  /\ Len(scheduled) < MaxArmed
  /\ \E task \in IntervalInputs :
       LET exists == \E i \in 1..Len(stateTasks) : stateTasks[i].id = task.id
           r == IF exists THEN TaskProvider_updateTask(World({}), task, now)
                          ELSE TaskProvider_addTask(World({}), task, now)
       IN
       /\ Commit(r.w)
       /\ stateTasks' = IF exists THEN reduceUpdate(stateTasks, task)
                                  ELSE reduceAdd(stateTasks, task)
       /\ nextTaskId' = IF task.id > nextTaskId THEN task.id ELSE nextTaskId
       /\ lastOp' = OpRecord("save", task.id, <<>>, task.id \in StoredIds, r.ids, r.w)
  /\ UNCHANGED <<now, importOk, ticks, inflight>>
  /\ UIUnchanged

NextInterval ==
  \/ CtxSaveInterval
  \/ CtxDeleteTask
  \/ Tick

SpecInterval == Init /\ [][NextInterval]_vars

\* the primary arm requests the last handler issued for one timesInDay entry
PrimariesByLastOp(entry) ==
  {r \in IssuedByLastOp : r.role = "primary" /\ r.entry = entry}

\* the step of the offset loop is at least one day for a stored task
StepAdvances(task) == intervalOf(task) >= 1

\* C30: for every alternateInterval value, 0, negative and missing ones
\* included, the offset loop of scheduleAlternateDaysForTimes advances by
\* at least one day per round, a save issues at most 366 primary arm
\* requests per timesInDay entry, and scheduleTaskNotifications returns:
\* the handles it returns are the ones stored for the task.
C30_BoundedScheduling ==
  /\ \A task \in IntervalInputs : StepAdvances(task)
  /\ (lastOp.op = "save" /\ lastOp.taskId \in StoredIds) =>
       /\ \A e \in 1..Len(StoredTask(lastOp.taskId).timesInDay) :
            Cardinality(PrimariesByLastOp(e)) <= horizonDays + 1
       /\ getNotificationSchedule([notifications |-> notifications], lastOp.taskId)
            = lastOp.ids

\* a save of a task whose interval is 0, negative or missing has returned
\* after 366 primary requests for its one time of day
C30_Witness ==
  /\ lastOp.op = "save"
  /\ lastOp.taskId \in StoredIds
  /\ ~("alternateInterval" \in DOMAIN StoredTask(lastOp.taskId)
         /\ StoredTask(lastOp.taskId).alternateInterval >= 1)
  /\ Cardinality(PrimariesByLastOp(1)) = horizonDays + 1

====
